---- MODULE Spec2Model ----
(***************************************************************************)
(* Tiered conversational memory of the companion backend:                  *)
(*   - working memory (STM) window kept in the Redis cache,                *)
(*   - the fact table (LTM facts) with select-then-insert deduplication,   *)
(*   - episodic memories: a relational row plus a vector point,            *)
(*   - the chat turn that assembles a context from the three tiers.        *)
(*   - the consolidation run that extracts facts and an episode from a    *)
(*     conversation's transcript and persists them.                        *)
(* Every coroutine is modelled as a process whose steps are cut at the     *)
(* awaits of the code, so that interleavings of two requests are visible.  *)
(* Times are seconds; scores, confidences and importances are percents.    *)
(***************************************************************************)
EXTENDS Integers, Sequences, FiniteSets, TLC

\* ------------------------------------------------------------------ bounds
MaxUpserts == 3
MaxConcUpserts == 3
MaxAppends == 2
MaxTicks == 2
MaxWmTicks == 1
MaxStores == 2
MaxDeletes == 1
MaxStoreOps == 2
MaxTurns == 1
MaxTurnTicks == 1
MaxRuns == 2
MaxQueries == 2
MaxFlowOps == 2
MaxExpiryTicks == 2
MaxConcAppends == 2
MaxIsoRuns == 1

\* ------------------------------------------------------ program constants
StmCap == 20
STM_TTL == 14400
FreshGap == 1800
ScoreThreshold == 70
FactLimit == 5
RecallLimit == 3
TranscriptCap == 20

\* ------------------------------------------------------------- input sets
Users == {"A", "B"}
Procs == {"p1", "p2"}

None == <<>>
Some(x) == <<x>>

\* FactCategory of the domain model
FactCategory == {"preference", "biographical", "goal", "medical", "relational", "work"}

\* FactCreate payloads handed to add_fact: f1 and f2 share the key
\* (category, value) and differ in everything else.
FactInputs ==
    { [category |-> "preference", value |-> "concise", confidence_score |-> 90,
       source_message_id |-> None, metadata |-> "m1"],
      [category |-> "preference", value |-> "concise", confidence_score |-> 50,
       source_message_id |-> Some("msg7"), metadata |-> "m2"],
      [category |-> "work", value |-> "nurse", confidence_score |-> 70,
       source_message_id |-> None, metadata |-> "m1"] }

FactKeys == { <<u, f.category, f.value>> : u \in Users, f \in FactInputs }

\* Turns handed to append_stm_message
Roles == {"user", "assistant"}
Contents == {"hi"}

\* Embeddings: vectors of length 10, so that the cosine of two of them is
\* their dot product in percent. Against E100 they score 100, 90, 80, 70, 50.
E100 == <<10, 0, 0, 0>>
E90 == <<9, 3, 3, 1>>
E80 == <<8, 6, 0, 0>>
E70 == <<7, 7, 1, 1>>
E50 == <<5, 5, 5, 5>>
StoreEmbeddings == {E80, E70}
QueryEmbeddings == {E100}

\* EpisodicMemoryCreate payloads
MemoryInputs ==
    { [content |-> "felt happy", summary |-> "happy moment", emotions |-> <<>>,
       topics |-> <<>>, importance_score |-> 80, context_type |-> Some("session")] }

\* Steps by which the clock may advance (seconds): minutes, or a whole TTL
TickSteps == {60, 600, 1740}
WmTickSteps == {600, STM_TTL}
TurnTickSteps == {600, FreshGap - 1, FreshGap, 1860}

VARIABLES
    now,        \* datetime.utcnow(), in seconds
    facts,      \* table facts: a set of rows
    nextId,     \* source of fresh primary keys (uuid4)
    pc,         \* per process: the await it is suspended at
    loc,        \* per process: the locals of the running coroutine
    ret,        \* per process: what its last call returned or raised
    cache,      \* Redis: key -> value with its expiry time, or None
    memories,   \* table episodic_memories: a set of rows
    points,     \* Qdrant collection episodic_memories: a set of points
    collections,\* Qdrant: the collections that exist
    client,     \* vector_db.client is not None
    users,      \* table users: the ids that exist
    convs,      \* table chat_conversations: a set of rows
    messages,   \* table chat_messages: a set of rows
    budget,     \* remaining number of calls of each kind (bounds the model)
    calls,      \* history: completed add_fact calls per key
    appended,   \* history: per user, the turns append_stm_message was called with
    wmFault,    \* history: per user, a cache failure or an expired key met an append
    runs        \* history: the consolidation runs that have ended, in order

vars == <<now, facts, nextId, pc, loc, ret, cache, memories, points, collections,
          client, users, convs, messages, budget, calls, appended, wmFault, runs>>

factVars == <<facts, nextId, calls>>
wmVars == <<cache, appended, wmFault>>
epVars == <<memories, points, collections, client>>
turnVars == <<users, convs, messages>>

Idle == [op |-> "idle"]
NoRet == [op |-> "none", status |-> "none"]

Returned(op, value) == [op |-> op, status |-> "ok", value |-> value]
Raised(op, error) == [op |-> op, status |-> "raised", error |-> error]

\* ------------------------------------------------------------------ clock
Tick(d) ==
    /\ budget.tick > 0
    /\ now' = now + d
    /\ budget' = [budget EXCEPT !.tick = @ - 1]
    /\ UNCHANGED <<runs, turnVars, pc, loc, ret, factVars, wmVars, epVars>>

\* ------------------------------------------------------------- fact store
\* select(FactModel).where(user_id ==, category ==, value ==)
\* (mutant) a select that never finds the row of the key
MatchingFactsNone(user_id, fact_data) == {}

MatchingFacts(user_id, fact_data) ==
    { r \in facts : /\ r.user_id = user_id
                    /\ r.category = fact_data.category
                    /\ r.value = fact_data.value }

\* FactModel(...) with the column defaults of the table
NewFactRow(id, user_id, fact_data) ==
    [ id |-> id,
      user_id |-> user_id,
      category |-> fact_data.category,
      value |-> fact_data.value,
      confidence_score |-> fact_data.confidence_score,
      source_message_id |-> fact_data.source_message_id,
      metadata |-> fact_data.metadata,
      created_at |-> now,
      last_reinforced_at |-> None,
      reinforcement_count |-> 0 ]

\* (mutant) a reinforce branch that counts down
ReinforcedRowCountsDown(row, fact_data) ==
    [ row EXCEPT !.reinforcement_count = @ - 1,
                 !.last_reinforced_at = Some(now),
                 !.metadata = fact_data.metadata ]

\* (mutant) a reinforce branch that forgets the increment
ReinforcedRowKeepsCount(row, fact_data) ==
    [ row EXCEPT !.last_reinforced_at = Some(now),
                 !.metadata = fact_data.metadata ]

\* (mutant) a reinforce branch that also takes the new call's confidence
ReinforcedRowTakesConfidence(row, fact_data) ==
    [ row EXCEPT !.reinforcement_count = @ + 1,
                 !.last_reinforced_at = Some(now),
                 !.metadata = fact_data.metadata,
                 !.confidence_score = fact_data.confidence_score ]

\* The attribute writes of the reinforce branch, applied to the row object
\* the select loaded (its reinforcement_count is the value read then).
ReinforcedRow(row, fact_data) ==
    [ row EXCEPT !.reinforcement_count = @ + 1,
                 !.last_reinforced_at = Some(now),
                 !.metadata = fact_data.metadata ]

FactKey(user_id, fact_data) == <<user_id, fact_data.category, fact_data.value>>

\* add_fact, up to the result of the select. scalar_one_or_none raises
\* MultipleResultsFound when more than one row matches.
AddFactSelect(p, user_id, fact_data, dbOk) ==
    /\ pc[p] = "idle"
    /\ budget.upsert > 0
    /\ budget' = [budget EXCEPT !.upsert = @ - 1]
    /\ LET found == MatchingFacts(user_id, fact_data) IN
       IF ~dbOk THEN
            /\ ret' = [ret EXCEPT ![p] = Raised("add_fact", "db")]
            /\ UNCHANGED <<pc, loc>>
       ELSE IF Cardinality(found) > 1 THEN
            /\ ret' = [ret EXCEPT ![p] = Raised("add_fact", "MultipleResultsFound")]
            /\ UNCHANGED <<pc, loc>>
       ELSE IF found # {} THEN
            /\ pc' = [pc EXCEPT ![p] = "af_reinforce"]
            /\ loc' = [loc EXCEPT ![p] = [op |-> "add_fact", user_id |-> user_id,
                          fact_data |-> fact_data, fact |-> CHOOSE r \in found : TRUE]]
            /\ UNCHANGED ret
       ELSE
            /\ pc' = [pc EXCEPT ![p] = "af_insert"]
            /\ loc' = [loc EXCEPT ![p] = [op |-> "add_fact", user_id |-> user_id,
                          fact_data |-> fact_data]]
            /\ UNCHANGED ret
    /\ UNCHANGED <<runs, turnVars, now, factVars, wmVars, epVars>>

\* add_fact, reinforce branch: the UPDATE of the loaded row and its commit.
\* The row may have been removed meanwhile (StaleDataError on flush).
AddFactReinforce(p, dbOk) ==
    /\ pc[p] = "af_reinforce"
    /\ LET row == loc[p].fact
           upd == ReinforcedRow(row, loc[p].fact_data)
           live == { r \in facts : r.id = row.id }
       IN
       IF dbOk /\ live # {} THEN
            /\ facts' = (facts \ live) \cup {upd}
            /\ ret' = [ret EXCEPT ![p] = Returned("add_fact", upd)]
            /\ calls' = [calls EXCEPT ![FactKey(loc[p].user_id, loc[p].fact_data)] = @ + 1]
       ELSE
            /\ ret' = [ret EXCEPT ![p] = Raised("add_fact", "db")]
            /\ UNCHANGED <<facts, calls>>
    /\ pc' = [pc EXCEPT ![p] = "idle"]
    /\ loc' = [loc EXCEPT ![p] = Idle]
    /\ UNCHANGED <<runs, turnVars, now, nextId, budget, wmVars, epVars>>

\* add_fact, create branch: INSERT and commit.
AddFactInsert(p, dbOk) ==
    /\ pc[p] = "af_insert"
    /\ LET new == NewFactRow(nextId, loc[p].user_id, loc[p].fact_data) IN
       IF dbOk THEN
            /\ facts' = facts \cup {new}
            /\ nextId' = nextId + 1
            /\ ret' = [ret EXCEPT ![p] = Returned("add_fact", new)]
            /\ calls' = [calls EXCEPT ![FactKey(loc[p].user_id, loc[p].fact_data)] = @ + 1]
       ELSE
            /\ ret' = [ret EXCEPT ![p] = Raised("add_fact", "db")]
            /\ UNCHANGED <<facts, nextId, calls>>
    /\ pc' = [pc EXCEPT ![p] = "idle"]
    /\ loc' = [loc EXCEPT ![p] = Idle]
    /\ UNCHANGED <<runs, turnVars, now, budget, wmVars, epVars>>

\* (mutant) a fact select without its order_by
GetRelevantFactsUnordered(user_id, category) ==
    LET rows == { r \in facts : /\ r.user_id = user_id
                                /\ (category # None => r.category = category[1]) }
        n == Cardinality(rows)
    IN { s \in [1..n -> rows] : \A i, j \in 1..n : i < j => s[i] # s[j] }

\* get_relevant_facts: every order the select may return the user's rows
\* (of the category, when one is given) in: confidence_score descending,
\* rows of equal confidence in any order.
GetRelevantFacts(user_id, category) ==
    LET rows == { r \in facts : /\ r.user_id = user_id
                                /\ (category # None => r.category = category[1]) }
        n == Cardinality(rows)
    IN { s \in [1..n -> rows] :
            \A i, j \in 1..n : i < j =>
                /\ s[i] # s[j]
                /\ s[i].confidence_score >= s[j].confidence_score }

\* query(user_id, category?): one call of get_relevant_facts
QueryFacts(p, user_id, category, dbOk) ==
    /\ pc[p] = "idle"
    /\ budget.query > 0
    /\ budget' = [budget EXCEPT !.query = @ - 1]
    /\ IF dbOk
       THEN \E s \in GetRelevantFacts(user_id, category) :
               ret' = [ret EXCEPT ![p] =
                         [op |-> "get_relevant_facts", status |-> "ok", value |-> s,
                          user_id |-> user_id, category |-> category]]
       ELSE ret' = [ret EXCEPT ![p] = Raised("get_relevant_facts", "db")]
    /\ UNCHANGED <<runs, turnVars, now, pc, loc, factVars, wmVars, epVars>>

\* --------------------------------------------------- working memory (STM)
\* (mutant) one key for every user
StmKeyShared(user_id) == <<"stm", "user">>

\* key = f"stm:{user_id}"
StmKey(user_id) == <<"stm", user_id>>
CacheKeys == { StmKey(u) : u \in Users }

\* json.dumps / json.loads of the list of turns: the text is never empty
\* (an empty list is the text "[]"), so a stored value is always truthy.
JsonDumps(x) == [json |-> x]
JsonLoads(s) == s.json

\* datetime.isoformat / datetime.fromisoformat
IsoFormat(t) == [iso |-> t]
FromIsoFormat(s) == s.iso

\* (mutant) a GET that drops the turns older than the TTL one by one
RedisGetPerTurn(key) ==
    IF cache[key] = None THEN None
    ELSE LET fresh(turn) == now < FromIsoFormat(turn.timestamp) + STM_TTL
             kept == SelectSeq(JsonLoads(cache[key][1].value), fresh)
         IN IF kept = <<>> THEN None ELSE Some(JsonDumps(kept))

\* redis GET: None for a missing key and for one whose expiry has passed
RedisGet(key) ==
    IF cache[key] = None THEN None
    ELSE IF now >= cache[key][1].expireAt THEN None
    ELSE Some(cache[key][1].value)

\* redis SET key value EX expire
RedisSet(key, value, expire) ==
    [cache EXCEPT ![key] = Some([value |-> value, expireAt |-> now + expire])]

\* get_stm_context: the stored window, [] for no data and for a cache error
GetStmContext(user_id, cacheOk) ==
    IF cacheOk /\ RedisGet(StmKey(user_id)) # None
    THEN JsonLoads(RedisGet(StmKey(user_id))[1])
    ELSE <<>>

\* current[-n:]
LastN(s, n) == IF Len(s) > n THEN SubSeq(s, Len(s) - n + 1, Len(s)) ELSE s

NewTurn(role, content) ==
    [role |-> role, content |-> content, timestamp |-> IsoFormat(now)]

\* (mutant) an append that never truncates
AppendedWindowNoCap(current, turn) == Append(current, turn)

\* current.append(turn); keep the last 20
AppendedWindow(current, turn) == LastN(Append(current, turn), StmCap)

\* append_stm_message up to the result of get_stm_context
AppendStmGet(p, user_id, role, content, cacheOk) ==
    /\ pc[p] = "idle"
    /\ budget.append > 0
    /\ budget' = [budget EXCEPT !.append = @ - 1]
    /\ pc' = [pc EXCEPT ![p] = "stm_set"]
    /\ loc' = [loc EXCEPT ![p] =
                 [op |-> "append_stm_message", user_id |-> user_id, role |-> role,
                  content |-> content, current |-> GetStmContext(user_id, cacheOk),
                  getOk |-> cacheOk, before |-> cache[StmKey(user_id)]]]
    /\ wmFault' = [wmFault EXCEPT ![user_id] =
                 @ \/ ~cacheOk \/ (cache[StmKey(user_id)] # None
                                   /\ RedisGet(StmKey(user_id)) = None)]
    /\ UNCHANGED <<runs, turnVars, now, ret, factVars, epVars, cache, appended>>

\* append_stm_message from the append to the SET; a cache error is logged
\* and the call returns None either way.
AppendStmSet(p, cacheOk) ==
    /\ pc[p] = "stm_set"
    /\ LET user_id == loc[p].user_id
           turn == NewTurn(loc[p].role, loc[p].content)
           current == AppendedWindow(loc[p].current, turn)
       IN
       /\ cache' = IF cacheOk
                   THEN RedisSet(StmKey(user_id), JsonDumps(current), STM_TTL)
                   ELSE cache
       /\ appended' = [appended EXCEPT ![user_id] = Append(@, turn)]
       /\ wmFault' = [wmFault EXCEPT ![user_id] = @ \/ ~cacheOk]
       /\ ret' = [ret EXCEPT ![p] =
                    [op |-> "append_stm_message", status |-> "ok", value |-> None,
                     user_id |-> user_id, getOk |-> loc[p].getOk, setOk |-> cacheOk,
                     before |-> loc[p].before]]
    /\ pc' = [pc EXCEPT ![p] = "idle"]
    /\ loc' = [loc EXCEPT ![p] = Idle]
    /\ UNCHANGED <<runs, turnVars, now, budget, factVars, epVars>>

\* read(user_id): one call of get_stm_context
StmRead(p, user_id, cacheOk) ==
    /\ pc[p] = "idle"
    /\ ret' = [ret EXCEPT ![p] =
                 [op |-> "get_stm_context", status |-> "ok",
                  value |-> GetStmContext(user_id, cacheOk),
                  user_id |-> user_id, getOk |-> cacheOk,
                  live |-> RedisGet(StmKey(user_id)) # None]]
    /\ UNCHANGED <<runs, turnVars, now, pc, loc, budget, factVars, wmVars, epVars>>

\* -------------------------------------------------------- episodic memory
EpisodicCollection == "episodic_memories"

\* str(uuid) and UUID(text)
Str(id) == [str |-> id]

\* (mutant) a parse of the point id that gives another id than was written
UUIDShifted(s) == s.str + 1

UUID(s) == s.str

RECURSIVE DotTo(_, _, _)
DotTo(a, b, n) == IF n = 0 THEN 0 ELSE a[n] * b[n] + DotTo(a, b, n - 1)
Dot(a, b) == DotTo(a, b, Len(a))
ISqrt(n) == CHOOSE r \in 0..n : r * r <= n /\ (r + 1) * (r + 1) > n

\* Distance.COSINE of the collection, in percent
Cosine(a, b) == (100 * Dot(a, b)) \div (ISqrt(Dot(a, a)) * ISqrt(Dot(b, b)))

\* The same, tabulated once over the embeddings of the model
Embeddings == {E100, E90, E80, E70, E50}
CosineTable == [a \in Embeddings |-> [b \in Embeddings |-> Cosine(a, b)]]
Score(a, b) == CosineTable[a][b]

Min(a, b) == IF a <= b THEN a ELSE b

\* (mutant) a row whose id is not generated anew
NewMemoryRowSameId(id, user_id, memory_data) ==
    [ id |-> 0,
      user_id |-> user_id,
      content |-> memory_data.content,
      summary |-> memory_data.summary,
      vector_id |-> None,
      emotions |-> memory_data.emotions,
      topics |-> memory_data.topics,
      importance_score |-> memory_data.importance_score,
      context_type |-> memory_data.context_type,
      decay_factor |-> 100,
      created_at |-> now ]

\* EpisodicMemoryModel(...) with the column defaults of the table
NewMemoryRow(id, user_id, memory_data) ==
    [ id |-> id,
      user_id |-> user_id,
      content |-> memory_data.content,
      summary |-> memory_data.summary,
      vector_id |-> None,
      emotions |-> memory_data.emotions,
      topics |-> memory_data.topics,
      importance_score |-> memory_data.importance_score,
      context_type |-> memory_data.context_type,
      decay_factor |-> 100,
      created_at |-> now ]

\* (mutant) a point keyed by another id than its row's
NewPointOtherId(db_memory, user_id, memory_data, embedding) ==
    [ id |-> Str(db_memory.id + 1),
      vector |-> embedding,
      payload |-> [ user_id |-> Str(user_id),
                    summary |-> memory_data.summary,
                    created_at |-> IsoFormat(db_memory.created_at),
                    importance |-> memory_data.importance_score ] ]

\* (mutant) a point tagged with another user than its row's
NewPointOtherUser(db_memory, user_id, memory_data, embedding) ==
    [ id |-> Str(db_memory.id),
      vector |-> embedding,
      payload |-> [ user_id |-> Str(CHOOSE u \in Users : u # user_id),
                    summary |-> memory_data.summary,
                    created_at |-> IsoFormat(db_memory.created_at),
                    importance |-> memory_data.importance_score ] ]

\* models.PointStruct(id=str(db_memory.id), vector=embedding, payload={...})
NewPoint(db_memory, user_id, memory_data, embedding) ==
    [ id |-> Str(db_memory.id),
      vector |-> embedding,
      payload |-> [ user_id |-> Str(user_id),
                    summary |-> memory_data.summary,
                    created_at |-> IsoFormat(db_memory.created_at),
                    importance |-> memory_data.importance_score ] ]

\* VectorDB.ensure_collection: creates the collection when it is missing;
\* without a client, or on an error, nothing happens.
EnsureCollection(colls, name, ok) ==
    IF client /\ ok THEN colls \cup {name} ELSE colls

\* VectorDB.upsert_vectors: points are keyed by id; without a client, on an
\* error or for a missing collection nothing is written.
UpsertVectors(colls, name, pts, ok) ==
    IF client /\ ok /\ name \in colls
    THEN { q \in points : \A n \in pts : n.id # q.id } \cup pts
    ELSE points

\* Whether a score passes the index's score_threshold; the index decides
\* by itself (atThreshold) about a score equal to the threshold.
PassesThreshold(score, score_threshold, atThreshold) ==
    score > score_threshold \/ (atThreshold /\ score = score_threshold)

\* client.query_points(query, limit, score_threshold, query_filter): every
\* ranking the index may return: the `limit` best of the points that pass
\* the filter and the threshold, best first, ties in any order.
QueryPoints(vector, limit, score_threshold, user_filter, atThreshold) ==
    LET eligible == { q \in points :
                        /\ q.payload.user_id = user_filter
                        /\ PassesThreshold(Score(vector, q.vector), score_threshold,
                                           atThreshold) }
        k == Min(limit, Cardinality(eligible))
        score(q) == Score(vector, q.vector)
    IN { s \in [1..k -> eligible] :
            /\ \A i, j \in 1..k : i < j => (s[i] # s[j] /\ score(s[i]) >= score(s[j]))
            /\ \A q \in eligible : (\A i \in 1..k : s[i] # q) =>
                                      (\A i \in 1..k : score(q) <= score(s[i])) }

\* (mutant) a search that passes no score threshold to the index
VectorSearchNoThreshold(colls, name, vector, limit, user_id, ok) ==
    IF client /\ ok /\ name \in colls
    THEN QueryPoints(vector, limit, 0, Str(user_id), TRUE)
    ELSE { <<>> }

\* (mutant) a search that asks the index for every point, not for `limit`
VectorSearchNoLimit(colls, name, vector, limit, user_id, ok) ==
    IF client /\ ok /\ name \in colls
    THEN UNION { QueryPoints(vector, Cardinality(points), ScoreThreshold, Str(user_id),
                             atThreshold) : atThreshold \in BOOLEAN }
    ELSE { <<>> }

\* VectorDB.search: score_threshold defaults to 0.7; [] without a client,
\* on an error and for a missing collection.
VectorSearch(colls, name, vector, limit, user_id, ok) ==
    IF client /\ ok /\ name \in colls
    THEN UNION { QueryPoints(vector, limit, ScoreThreshold, Str(user_id), atThreshold) :
                    atThreshold \in BOOLEAN }
    ELSE { <<>> }

\* (mutant) a hydration loop that stops at the first hit without a row
OrderedUntilOrphan(memory_ids, rows) ==
    LET present(id) == \E m \in rows : m.id = id
        stop == { i \in 1..Len(memory_ids) : ~present(memory_ids[i]) }
        n == IF stop = {} THEN Len(memory_ids)
             ELSE (CHOOSE i \in stop : \A j \in stop : i <= j) - 1
    IN [i \in 1..n |-> CHOOSE m \in rows : m.id = memory_ids[i]]

\* The rows of the hydration select, in the order of the vector hits
OrderedByHits(memory_ids, rows) ==
    LET present(id) == \E m \in rows : m.id = id
        kept == SelectSeq(memory_ids, present)
    IN [i \in 1..Len(kept) |-> CHOOSE m \in rows : m.id = kept[i]]

\* (mutant) a store that raises when its vector write did not happen
CreateMemoryResultStrict(db_memory, vector) ==
    IF vector = "written"
    THEN [op |-> "create_episodic_memory", status |-> "ok", value |-> db_memory,
          vector |-> vector]
    ELSE [op |-> "create_episodic_memory", status |-> "raised", error |-> "vector",
          vector |-> vector]

\* What create_episodic_memory returns once the vector calls are over: the
\* committed row, whether its point was written or the write was given up
CreateMemoryResult(db_memory, vector) ==
    [op |-> "create_episodic_memory", status |-> "ok", value |-> db_memory,
     vector |-> vector]

\* create_episodic_memory up to the commit of the row
CreateMemoryCommit(p, user_id, memory_data, embedding, dbOk) ==
    /\ pc[p] = "idle"
    /\ budget.store > 0
    /\ budget' = [budget EXCEPT !.store = @ - 1]
    /\ LET db_memory == NewMemoryRow(nextId, user_id, memory_data) IN
       IF dbOk THEN
            /\ memories' = memories \cup {db_memory}
            /\ nextId' = nextId + 1
            /\ pc' = [pc EXCEPT ![p] = "cem_vector"]
            /\ loc' = [loc EXCEPT ![p] =
                          [op |-> "create_episodic_memory", user_id |-> user_id,
                           memory_data |-> memory_data, embedding |-> embedding,
                           db_memory |-> db_memory]]
            /\ UNCHANGED ret
       ELSE
            /\ ret' = [ret EXCEPT ![p] = Raised("create_episodic_memory", "db")]
            /\ UNCHANGED <<memories, nextId, pc, loc>>
    /\ UNCHANGED <<runs, turnVars, now, facts, calls, wmVars, points, collections, client>>

\* create_episodic_memory after the commit: the refresh of the row, then
\* ensure_collection and upsert_vectors, whose errors are only logged.
CreateMemoryVector(p, dbOk, ensureOk, upsertOk) ==
    /\ pc[p] = "cem_vector"
    /\ IF dbOk THEN
            LET colls == EnsureCollection(collections, EpisodicCollection, ensureOk)
                point == NewPoint(loc[p].db_memory, loc[p].user_id,
                                  loc[p].memory_data, loc[p].embedding)
            IN /\ collections' = colls
               /\ points' = UpsertVectors(colls, EpisodicCollection, {point}, upsertOk)
               /\ ret' = [ret EXCEPT ![p] =
                            CreateMemoryResult(loc[p].db_memory,
                                IF client /\ upsertOk /\ EpisodicCollection \in colls
                                THEN "written" ELSE "failed")]
       ELSE
            /\ ret' = [ret EXCEPT ![p] = Raised("create_episodic_memory", "db")]
            /\ UNCHANGED <<points, collections>>
    /\ pc' = [pc EXCEPT ![p] = "idle"]
    /\ loc' = [loc EXCEPT ![p] = Idle]
    /\ UNCHANGED <<runs, turnVars, now, budget, factVars, wmVars, memories, client>>

SearchReturn(l, status, value, rows, error) ==
    [ op |-> "search_memories", status |-> status, value |-> value, error |-> error,
      user_id |-> l.user_id, query |-> l.query, limit |-> l.limit,
      hits |-> l.hits, rows |-> rows ]

\* search_memories up to the vector search: an empty result returns []
SearchMemoriesVector(p, user_id, query_embedding, limit, ensureOk, searchOk) ==
    /\ pc[p] = "idle"
    /\ LET colls == EnsureCollection(collections, EpisodicCollection, ensureOk) IN
       /\ collections' = colls
       /\ \E results \in VectorSearch(colls, EpisodicCollection, query_embedding,
                                      limit, user_id, searchOk) :
            LET l == [op |-> "search_memories", user_id |-> user_id,
                      query |-> query_embedding, limit |-> limit,
                      hits |-> [i \in 1..Len(results) |->
                                  [id |-> UUID(results[i].id),
                                   score |-> Score(query_embedding, results[i].vector)]]]
            IN IF results = <<>> THEN
                    /\ ret' = [ret EXCEPT ![p] = SearchReturn(l, "ok", <<>>, {}, "none")]
                    /\ UNCHANGED <<pc, loc>>
               ELSE
                    /\ pc' = [pc EXCEPT ![p] = "sm_hydrate"]
                    /\ loc' = [loc EXCEPT ![p] = l]
                    /\ UNCHANGED ret
    /\ UNCHANGED <<runs, turnVars, now, budget, factVars, wmVars, memories, points, client>>

\* search_memories: the select of the rows whose id is among the hits
SearchMemoriesHydrate(p, dbOk) ==
    /\ pc[p] = "sm_hydrate"
    /\ LET memory_ids == [i \in 1..Len(loc[p].hits) |-> loc[p].hits[i].id]
           rows == { m \in memories : \E i \in 1..Len(memory_ids) : memory_ids[i] = m.id }
       IN ret' = [ret EXCEPT ![p] =
                    IF dbOk
                    THEN SearchReturn(loc[p], "ok", OrderedByHits(memory_ids, rows),
                                      { m.id : m \in rows }, "none")
                    ELSE SearchReturn(loc[p], "raised", <<>>, {}, "db")]
    /\ pc' = [pc EXCEPT ![p] = "idle"]
    /\ loc' = [loc EXCEPT ![p] = Idle]
    /\ UNCHANGED <<runs, turnVars, now, budget, factVars, wmVars, epVars>>

\* A row of episodic_memories removed outside the service; its vector stays.
DeleteMemoryRow(id) ==
    /\ budget.delete > 0
    /\ \E m \in memories : m.id = id
    /\ budget' = [budget EXCEPT !.delete = @ - 1]
    /\ memories' = { m \in memories : m.id # id }
    /\ UNCHANGED <<runs, turnVars, now, pc, loc, ret, factVars, wmVars, points, collections, client>>

\* -------------------------------------------------------------- chat turn
START_SESSION == "START_SESSION"
Apology == "I apologize, but I'm having trouble connecting to my memory banks"
NoHistory == << <<"", "(No previous history)">> >>
Messages == {"hello", START_SESSION}

\* What llm.generate may answer, with or without surrounding blanks
Replies == {"reply", " reply "}

\* str.strip()
Strip(s) == IF s = " reply " THEN "reply" ELSE s

\* The memory tiers whose failure ends the turn with the apology
TierSteps == {"facts", "hydrate"}

\* chat_history_str: the formatted turns, or the placeholder for none
ChatHistoryStr(stm_context) ==
    IF stm_context # <<>>
    THEN [i \in 1..Len(stm_context) |->
            << IF stm_context[i].role = "user" THEN "PROFESIONAL" ELSE "COMPY",
               stm_context[i].content >>]
    ELSE NoHistory

\* (mutant) a freshness check that takes exactly 30 minutes for recent
IsFreshSessionLate(stm_context) ==
    IF stm_context # <<>>
    THEN ~(now - FromIsoFormat(stm_context[Len(stm_context)].timestamp) <= FreshGap)
    ELSE TRUE

\* is_fresh_session: true unless the last turn is less than 30 minutes old
IsFreshSession(stm_context) ==
    IF stm_context # <<>>
    THEN ~(now - FromIsoFormat(stm_context[Len(stm_context)].timestamp) < FreshGap)
    ELSE TRUE

\* session_instruction: the note added to the system prompt
SessionInstruction(stm_context) ==
    IF IsFreshSession(stm_context) /\ stm_context # <<>>
        /\ ChatHistoryStr(stm_context) # NoHistory
    THEN "time has passed"
    ELSE IF IsFreshSession(stm_context) THEN "brand new session"
    ELSE "none"

NewTurnLocals(user_id, message) ==
    [ op |-> "generate_response", user_id |-> user_id, message |-> message,
      conv |-> 0, stm_context |-> <<>>, current |-> <<>>, relevant_facts |-> <<>>, hits |-> <<>>,
      memories |-> <<>>, assembled |-> {},
      session_instruction |-> "unset", formulated_at |-> 0,
      response_text |-> None, appends |-> 0 ]

TurnReturn(l, value, failedAt) ==
    [ op |-> "generate_response", status |-> "ok", value |-> value,
      user_id |-> l.user_id, message |-> l.message, failedAt |-> failedAt,
      response_text |-> l.response_text, appends |-> l.appends ]

\* (mutant) an except branch that raises the error again
TurnFailsRaises(p, l, step) ==
    /\ ret' = [ret EXCEPT ![p] = Raised("generate_response", step)]
    /\ pc' = [pc EXCEPT ![p] = "idle"]
    /\ loc' = [loc EXCEPT ![p] = Idle]

\* The except branch: the error is logged and the apology returned
TurnFails(p, l, step) ==
    /\ ret' = [ret EXCEPT ![p] = TurnReturn(l, Apology, step)]
    /\ pc' = [pc EXCEPT ![p] = "idle"]
    /\ loc' = [loc EXCEPT ![p] = Idle]

TurnGoes(p, l, next) ==
    /\ pc' = [pc EXCEPT ![p] = next]
    /\ loc' = [loc EXCEPT ![p] = l]
    /\ UNCHANGED ret

\* 1. the select of the user; an unknown user raises ValueError
TurnFetchUser(p, user_id, message, dbOk) ==
    /\ pc[p] = "idle"
    /\ budget.turn > 0
    /\ budget' = [budget EXCEPT !.turn = @ - 1]
    /\ IF dbOk /\ user_id \in users
       THEN TurnGoes(p, NewTurnLocals(user_id, message), "gr_conv")
       ELSE TurnFails(p, NewTurnLocals(user_id, message), "user")
    /\ UNCHANGED <<runs, now, factVars, wmVars, epVars, turnVars>>

\* The user's conversations that get_or_create_conversation may pick:
\* the most recently updated ones
LatestConvs(user_id) ==
    { c \in convs : /\ c.user_id = user_id
                    /\ \A d \in convs : d.user_id = user_id => d.updated_at <= c.updated_at }

\* 1b. get_or_create_conversation: the select, and the insert of a first
\* conversation when there is none
TurnGetConversation(p, dbOk) ==
    /\ pc[p] = "gr_conv"
    /\ IF ~dbOk THEN
            /\ TurnFails(p, loc[p], "conversation")
            /\ UNCHANGED <<convs, nextId>>
       ELSE IF LatestConvs(loc[p].user_id) # {} THEN
            /\ \E c \in LatestConvs(loc[p].user_id) :
                  TurnGoes(p, [loc[p] EXCEPT !.conv = c.id], "gr_stm")
            /\ UNCHANGED <<convs, nextId>>
       ELSE
            /\ convs' = convs \cup
                  { [id |-> nextId, user_id |-> loc[p].user_id, updated_at |-> now] }
            /\ nextId' = nextId + 1
            /\ TurnGoes(p, [loc[p] EXCEPT !.conv = nextId], "gr_stm")
    /\ UNCHANGED <<runs, now, budget, facts, calls, wmVars, epVars, users, messages>>

\* 2A. get_stm_context, which degrades to [] by itself
TurnReadStm(p, cacheOk) ==
    /\ pc[p] = "gr_stm"
    /\ TurnGoes(p, [loc[p] EXCEPT !.stm_context = GetStmContext(loc[p].user_id, cacheOk),
                                  !.assembled = @ \cup {"stm"}],
                "gr_facts")
    /\ UNCHANGED <<runs, now, budget, factVars, wmVars, epVars, turnVars>>

\* 2B. get_relevant_facts and relevant_facts[:5]; an error of the select
\* is not caught before the outer except
TurnReadFacts(p, dbOk) ==
    /\ pc[p] = "gr_facts"
    /\ IF dbOk
       THEN \E s \in GetRelevantFacts(loc[p].user_id, None) :
               TurnGoes(p, [loc[p] EXCEPT
                              !.relevant_facts = SubSeq(s, 1, Min(FactLimit, Len(s))),
                              !.assembled = @ \cup {"facts"}],
                        "gr_search")
       ELSE TurnFails(p, loc[p], "facts")
    /\ UNCHANGED <<runs, now, budget, factVars, wmVars, epVars, turnVars>>

\* 2C. get_embedding (the providers fall back to a vector on any error),
\* then the vector search of search_memories(limit=3)
TurnSearch(p, embedding, ensureOk, searchOk) ==
    /\ pc[p] = "gr_search"
    /\ LET colls == EnsureCollection(collections, EpisodicCollection, ensureOk) IN
       /\ collections' = colls
       /\ \E results \in VectorSearch(colls, EpisodicCollection, embedding,
                                      RecallLimit, loc[p].user_id, searchOk) :
            IF results = <<>>
            THEN TurnGoes(p, [loc[p] EXCEPT !.assembled = @ \cup {"memories"}],
                          "gr_entities")
            ELSE TurnGoes(p, [loc[p] EXCEPT
                                !.hits = [i \in 1..Len(results) |-> UUID(results[i].id)]],
                          "gr_hydrate")
    /\ UNCHANGED <<runs, now, budget, factVars, wmVars, memories, points, client, turnVars>>

\* 2C. the hydration select of search_memories; its error is not caught
\* before the outer except
TurnHydrate(p, dbOk) ==
    /\ pc[p] = "gr_hydrate"
    /\ IF dbOk
       THEN TurnGoes(p, [loc[p] EXCEPT
                           !.memories = OrderedByHits(loc[p].hits, memories),
                           !.assembled = @ \cup {"memories"}],
                     "gr_entities")
       ELSE TurnFails(p, loc[p], "hydrate")
    /\ UNCHANGED <<runs, now, budget, factVars, wmVars, epVars, turnVars>>

\* 2D and 3. list_patients and list_events, then the prompt with its
\* session instruction, handed to llm.generate
TurnFormulate(p, dbOk) ==
    /\ pc[p] = "gr_entities"
    /\ IF dbOk
       THEN TurnGoes(p, [loc[p] EXCEPT
                           !.session_instruction = SessionInstruction(loc[p].stm_context),
                           !.formulated_at = now],
                     "gr_generate")
       ELSE TurnFails(p, loc[p], "entities")
    /\ UNCHANGED <<runs, now, budget, factVars, wmVars, epVars, turnVars>>

\* (mutant) a turn that records the exchange whether or not a reply came
AfterGenerateAlways(llmOk, message) ==
    IF message # START_SESSION THEN "gr_app_user_get"
    ELSE IF ~llmOk THEN "fail"
    ELSE "return"

\* (mutant) a turn that records the session marker like a message
AfterGenerateRecordsMarker(llmOk, message) ==
    IF ~llmOk THEN "fail" ELSE "gr_app_user_get"

\* Where the turn goes when llm.generate has answered or failed
AfterGenerate(llmOk, message) ==
    IF ~llmOk THEN "fail"
    ELSE IF message # START_SESSION THEN "gr_app_user_get"
    ELSE "return"

\* 4. the answer of llm.generate
TurnGenerate(p, llmOk, reply) ==
    /\ pc[p] = "gr_generate"
    /\ LET l == IF llmOk THEN [loc[p] EXCEPT !.response_text = Some(reply)] ELSE loc[p]
           next == AfterGenerate(llmOk, loc[p].message)
       IN IF next = "fail" THEN TurnFails(p, l, "generate")
          ELSE IF next = "return" THEN
               /\ ret' = [ret EXCEPT ![p] = TurnReturn(l, Strip(reply), "none")]
               /\ pc' = [pc EXCEPT ![p] = "idle"]
               /\ loc' = [loc EXCEPT ![p] = Idle]
          ELSE TurnGoes(p, l, next)
    /\ UNCHANGED <<runs, now, budget, factVars, wmVars, epVars, turnVars>>

\* 5. append_stm_message for the user turn, then for the assistant turn:
\* its get_stm_context
TurnAppendGet(p, cacheOk) ==
    /\ pc[p] \in {"gr_app_user_get", "gr_app_asst_get"}
    /\ TurnGoes(p, [loc[p] EXCEPT !.current = GetStmContext(loc[p].user_id, cacheOk)],
                IF pc[p] = "gr_app_user_get" THEN "gr_app_user_set" ELSE "gr_app_asst_set")
    /\ wmFault' = [wmFault EXCEPT ![loc[p].user_id] =
                 @ \/ ~cacheOk \/ (cache[StmKey(loc[p].user_id)] # None
                                   /\ RedisGet(StmKey(loc[p].user_id)) = None)]
    /\ UNCHANGED <<runs, now, budget, factVars, cache, appended, epVars, turnVars>>

\* 5. append_stm_message: the append, the cut to 20 and the SET
TurnAppendSet(p, cacheOk) ==
    /\ pc[p] \in {"gr_app_user_set", "gr_app_asst_set"}
    /\ LET user_id == loc[p].user_id
           turn == IF pc[p] = "gr_app_user_set"
                   THEN NewTurn("user", loc[p].message)
                   ELSE NewTurn("assistant", loc[p].response_text[1])
           current == AppendedWindow(loc[p].current, turn)
       IN
       /\ cache' = IF cacheOk
                   THEN RedisSet(StmKey(user_id), JsonDumps(current), STM_TTL)
                   ELSE cache
       /\ appended' = [appended EXCEPT ![user_id] = Append(@, turn)]
       /\ wmFault' = [wmFault EXCEPT ![user_id] = @ \/ ~cacheOk]
       /\ TurnGoes(p, [loc[p] EXCEPT !.appends = @ + 1],
                   IF pc[p] = "gr_app_user_set" THEN "gr_app_asst_get" ELSE "gr_persist")
    /\ UNCHANGED <<runs, now, budget, factVars, epVars, turnVars>>

\* 6. the two chat_messages rows and conv.updated_at, committed together
TurnPersist(p, dbOk) ==
    /\ pc[p] = "gr_persist"
    /\ IF dbOk THEN
            /\ messages' = messages \cup
                 { [id |-> nextId, conversation_id |-> loc[p].conv, role |-> "user",
                    content |-> loc[p].message, timestamp |-> now],
                   [id |-> nextId + 1, conversation_id |-> loc[p].conv,
                    role |-> "assistant", content |-> Strip(loc[p].response_text[1]),
                    timestamp |-> now] }
            /\ convs' = { IF c.id = loc[p].conv THEN [c EXCEPT !.updated_at = now] ELSE c :
                          c \in convs }
            /\ nextId' = nextId + 2
            /\ ret' = [ret EXCEPT ![p] =
                         TurnReturn(loc[p], Strip(loc[p].response_text[1]), "none")]
            /\ pc' = [pc EXCEPT ![p] = "idle"]
            /\ loc' = [loc EXCEPT ![p] = Idle]
       ELSE
            /\ TurnFails(p, loc[p], "persist")
            /\ UNCHANGED <<messages, convs, nextId>>
    /\ UNCHANGED <<runs, now, budget, facts, calls, wmVars, epVars, users>>

\* ------------------------------------------------- consolidation pipeline
\* Conversation ids a run is asked for: A's conversation with its two
\* messages, B's conversation without messages, and an id of no conversation
ConversationIds == {1, 2, 9}

\* dict.get(key, default) of a key that may be missing
DictGet(entry, default) == IF entry = None THEN default ELSE entry[1]

\* Entries of the "facts" list of a model answer
CandidateConcise ==
    [category |-> Some("preference"), value |-> Some("concise"), confidence |-> Some(90)]
CandidateNurse ==
    [category |-> Some("work"), value |-> Some("nurse"), confidence |-> None]
CandidateNoCategory ==
    [category |-> None, value |-> Some("concise"), confidence |-> Some(90)]

\* The "memory" entry of a model answer
CandidateMemory ==
    [summary |-> Some("happy moment"), content |-> Some("felt happy"),
     emotions |-> None, importance |-> Some(80)]

\* What llm.generate may answer: text that is no JSON, or a JSON object,
\* with or without a ```json fence around it, with or without words before
\* or after its braces
LlmAnswers ==
    { [fenced |-> FALSE, prose |-> FALSE, json |-> None],
      [fenced |-> TRUE, prose |-> FALSE,
       json |-> Some([facts |-> <<CandidateConcise, CandidateNurse>>,
                      memory |-> Some(CandidateMemory)])],
      [fenced |-> FALSE, prose |-> FALSE,
       json |-> Some([facts |-> <<CandidateConcise>>, memory |-> None])],
      [fenced |-> FALSE, prose |-> TRUE,
       json |-> Some([facts |-> <<CandidateConcise>>, memory |-> None])],
      [fenced |-> FALSE, prose |-> FALSE,
       json |-> Some([facts |-> <<CandidateConcise, CandidateNoCategory>>,
                      memory |-> Some(CandidateMemory)])] }

\* response_json.replace("```json", "").replace("```", "").strip()
StripFences(text) == [text EXCEPT !.fenced = FALSE]

\* json.loads: the object, or None where it raises
JsonLoadsText(text) == IF text.fenced \/ text.prose THEN None ELSE text.json

\* re.search(r"\{.*\}", text, re.DOTALL) and json.loads of the match: the
\* object between the first and the last brace, whatever is around them
JsonSearchBraces(text) == text.json

\* FactCreate(category=f.get("category", "general"), value=f.get("value"),
\* confidence_score=f.get("confidence", 0.5)), or None where pydantic rejects it
CandidateFactCreate(f) ==
    LET category == DictGet(f.category, "general")
        confidence == DictGet(f.confidence, 50)
    IN IF category \in FactCategory /\ f.value # None /\ confidence \in 0..100
       THEN Some([category |-> category, value |-> f.value[1],
                  confidence_score |-> confidence, source_message_id |-> None,
                  metadata |-> "{}"])
       ELSE None

\* EpisodicMemoryCreate(...) of the answer's memory, or None where pydantic
\* rejects it
CandidateMemoryCreate(m) ==
    IF m.content # None /\ m.summary # None /\ DictGet(m.importance, 50) \in 0..100
    THEN Some([content |-> m.content[1], summary |-> m.summary[1],
               emotions |-> DictGet(m.emotions, <<>>), topics |-> <<>>,
               importance_score |-> DictGet(m.importance, 50),
               context_type |-> Some("conversation_fragment")])
    ELSE None

\* conv.messages: the rows of the conversation in every order the
\* relationship's order_by timestamp allows
RECURSIVE OrderedByTimestamp(_)
OrderedByTimestamp(rows) ==
    IF rows = {} THEN { <<>> }
    ELSE UNION { { <<m>> \o s : s \in OrderedByTimestamp(rows \ {m}) } :
                 m \in { r \in rows : \A q \in rows : r.timestamp <= q.timestamp } }

\* (mutant) the rows of every conversation
ConvMessagesOfAll(conversation_id) == OrderedByTimestamp(messages)

ConvMessages(conversation_id) ==
    OrderedByTimestamp({ m \in messages : m.conversation_id = conversation_id })

\* The stage of the run a caller is in, by the await it is suspended at
Stage(at) ==
    CASE at = "pl_fetch" -> "FETCH_TRANSCRIPT"
      [] at = "pl_extract" -> "EXTRACT"
      [] at \in {"pl_facts", "pl_fact_reinforce", "pl_fact_insert"} -> "PERSIST_FACTS"
      [] at \in {"pl_episode", "pl_ep_vector"} -> "PERSIST_EPISODE"
      [] OTHER -> "NONE"

NewRunLocals(conversation_id) ==
    [ op |-> "process_conversation_background", conversation_id |-> conversation_id,
      user_id |-> None, transcript |-> <<>>, data |-> None, done |-> 0,
      fact_data |-> None, fact |-> None, db_memory |-> None, embedding |-> None,
      stats |-> [facts |-> 0, memories |-> 0], made |-> {}, vector |-> "none",
      answer |-> None,
      before |-> [facts |-> facts, memories |-> memories, points |-> points] ]

\* What a run leaves behind: the status it returns (or "raised" for an
\* exception that leaves the coroutine) and, for the record, where it ended
RunOutcome(l, status, at) ==
    [ op |-> "process_conversation_background", status |-> status,
      stage |-> Stage(at), conversation_id |-> l.conversation_id,
      user_id |-> l.user_id, data |-> l.data, stats |-> l.stats, made |-> l.made,
      vector |-> l.vector, answer |-> l.answer, before |-> l.before ]

\* (mutant) a run whose end takes the other callers down with it
RunEndsAbortsAll(p, l, status) ==
    /\ ret' = [ret EXCEPT ![p] = RunOutcome(l, status, pc[p])]
    /\ runs' = Append(runs, RunOutcome(l, status, pc[p]))
    /\ pc' = [q \in Procs |-> "idle"]
    /\ loc' = [q \in Procs |-> Idle]

RunEnds(p, l, status) ==
    /\ ret' = [ret EXCEPT ![p] = RunOutcome(l, status, pc[p])]
    /\ runs' = Append(runs, RunOutcome(l, status, pc[p]))
    /\ pc' = [pc EXCEPT ![p] = "idle"]
    /\ loc' = [loc EXCEPT ![p] = Idle]

RunGoes(p, l, next) ==
    /\ pc' = [pc EXCEPT ![p] = next]
    /\ loc' = [loc EXCEPT ![p] = l]
    /\ UNCHANGED <<ret, runs>>

\* (mutant) msgs[:20], the oldest messages of the conversation
TranscriptSliceOldest(msgs) ==
    IF Len(msgs) > TranscriptCap THEN SubSeq(msgs, 1, TranscriptCap) ELSE msgs

\* conv.messages[-20:]
TranscriptSlice(msgs) == LastN(msgs, TranscriptCap)

\* process_conversation_background is called
RunStart(p, conversation_id) ==
    /\ pc[p] = "idle"
    /\ budget.run > 0
    /\ budget' = [budget EXCEPT !.run = @ - 1]
    /\ RunGoes(p, NewRunLocals(conversation_id), "pl_fetch")
    /\ UNCHANGED <<now, factVars, wmVars, epVars, turnVars>>

\* 1. the select of the conversation and its last 20 messages; the select
\* is outside the try, so its error leaves the coroutine
RunFetch(p, dbOk) ==
    /\ pc[p] = "pl_fetch"
    /\ LET found == { c \in convs : c.id = loc[p].conversation_id } IN
       IF ~dbOk THEN RunEnds(p, loc[p], "raised")
       ELSE IF found = {} THEN RunEnds(p, loc[p], "error")
       ELSE \E msgs \in ConvMessages(loc[p].conversation_id) :
               LET l == [loc[p] EXCEPT !.user_id = Some((CHOOSE c \in found : TRUE).user_id),
                                       !.transcript = TranscriptSlice(msgs)]
               IN IF msgs = <<>> THEN RunEnds(p, l, "skipped")
                  ELSE RunGoes(p, l, "pl_extract")
    /\ UNCHANGED <<now, budget, factVars, wmVars, epVars, turnVars>>

\* (mutant) a run that stores the episode without upserting the facts
AfterExtractToEpisode(llmOk, data) ==
    IF llmOk /\ data # None THEN "pl_episode" ELSE "error"

\* (mutant) a run that goes on to the facts whatever the extraction gave
AfterExtractLenient(llmOk, data) == "pl_facts"

\* Where the run goes when llm.generate and json.loads are over: an
\* exception of either is caught by the except branch
AfterExtract(llmOk, data) ==
    IF llmOk /\ data # None THEN "pl_facts" ELSE "error"

\* 2. llm.generate, the removal of the fences and json.loads
RunExtract(p, llmOk, answer) ==
    /\ pc[p] = "pl_extract"
    /\ LET data == IF llmOk THEN JsonLoadsText(StripFences(answer)) ELSE None
           next == AfterExtract(llmOk, data)
           l == [loc[p] EXCEPT !.answer = IF llmOk THEN Some(answer) ELSE None]
       IN IF next = "error" THEN RunEnds(p, l, "error")
          ELSE RunGoes(p, [l EXCEPT !.data = data], next)
    /\ UNCHANGED <<now, budget, factVars, wmVars, epVars, turnVars>>

\* 3. the loop over data.get("facts", []): the FactCreate of the next
\* candidate and the select of add_fact; past the last candidate, on to 4.
RunFactSelect(p, dbOk) ==
    /\ pc[p] = "pl_facts"
    /\ LET l == loc[p]
           candidates == l.data[1].facts
       IN IF l.done = Len(candidates) THEN RunGoes(p, l, "pl_episode")
          ELSE LET fact_data == CandidateFactCreate(candidates[l.done + 1]) IN
               IF fact_data = None \/ ~dbOk THEN RunEnds(p, l, "error")
               ELSE LET found == MatchingFacts(l.user_id[1], fact_data[1]) IN
                    IF Cardinality(found) > 1 THEN RunEnds(p, l, "error")
                    ELSE IF found # {}
                    THEN RunGoes(p, [l EXCEPT !.fact_data = fact_data,
                                              !.fact = Some(CHOOSE r \in found : TRUE)],
                                 "pl_fact_reinforce")
                    ELSE RunGoes(p, [l EXCEPT !.fact_data = fact_data, !.fact = None],
                                 "pl_fact_insert")
    /\ UNCHANGED <<now, budget, factVars, wmVars, epVars, turnVars>>

\* (mutant) a write that stays in the table although its commit failed
CommittedFactsDirty(live, row, dbOk) == (facts \ live) \cup {row}

\* The table after add_fact's commit: with the written row in place of the
\* one it reinforces, or as it was when the commit raises
CommittedFacts(live, row, dbOk) ==
    IF dbOk THEN (facts \ live) \cup {row} ELSE facts

\* 3. add_fact's reinforce or insert, its commit, and stats["facts"] += 1
RunFactWrite(p, dbOk) ==
    /\ pc[p] \in {"pl_fact_reinforce", "pl_fact_insert"}
    /\ LET l == loc[p]
           fact_data == l.fact_data[1]
           live == IF l.fact = None THEN {} ELSE { r \in facts : r.id = l.fact[1].id }
           row == IF pc[p] = "pl_fact_reinforce"
                  THEN ReinforcedRow(l.fact[1], fact_data)
                  ELSE NewFactRow(nextId, l.user_id[1], fact_data)
       IN IF dbOk /\ (pc[p] = "pl_fact_reinforce" => live # {}) THEN
               /\ facts' = CommittedFacts(live, row, TRUE)
               /\ nextId' = IF pc[p] = "pl_fact_insert" THEN nextId + 1 ELSE nextId
               /\ calls' = [calls EXCEPT ![FactKey(l.user_id[1], fact_data)] = @ + 1]
               /\ RunGoes(p, [l EXCEPT !.done = @ + 1, !.stats.facts = @ + 1,
                                       !.fact_data = None, !.fact = None],
                          "pl_facts")
          ELSE /\ RunEnds(p, l, "error")
               /\ facts' = CommittedFacts(live, row, FALSE)
               /\ UNCHANGED <<nextId, calls>>
    /\ UNCHANGED <<now, budget, wmVars, epVars, turnVars>>

\* 4. data.get("memory"): none ends the run; else get_embedding, the
\* EpisodicMemoryCreate and create_episodic_memory up to its commit
RunEpisodeCommit(p, embedding, dbOk) ==
    /\ pc[p] = "pl_episode"
    /\ LET l == loc[p]
           mem_data == l.data[1].memory
       IN IF mem_data = None THEN
               /\ RunEnds(p, l, "success")
               /\ UNCHANGED <<memories, nextId>>
          ELSE LET memory_data == CandidateMemoryCreate(mem_data[1]) IN
               IF memory_data # None /\ dbOk THEN
                    LET db_memory == NewMemoryRow(nextId, l.user_id[1], memory_data[1]) IN
                    /\ memories' = memories \cup {db_memory}
                    /\ nextId' = nextId + 1
                    /\ RunGoes(p, [l EXCEPT !.db_memory = Some(db_memory),
                                            !.embedding = Some(embedding),
                                            !.made = @ \cup {db_memory.id}],
                               "pl_ep_vector")
               ELSE /\ RunEnds(p, l, "error")
                    /\ UNCHANGED <<memories, nextId>>
    /\ UNCHANGED <<now, budget, facts, calls, wmVars, points, collections, client, turnVars>>

\* 4. create_episodic_memory after its commit (refresh, ensure_collection,
\* upsert_vectors), stats["memories"] += 1 and the return of the run
RunEpisodeVector(p, dbOk, ensureOk, upsertOk) ==
    /\ pc[p] = "pl_ep_vector"
    /\ LET l == loc[p] IN
       IF dbOk THEN
            LET colls == EnsureCollection(collections, EpisodicCollection, ensureOk)
                point == NewPoint(l.db_memory[1], l.user_id[1],
                                  CandidateMemoryCreate(l.data[1].memory[1])[1],
                                  l.embedding[1])
            IN /\ collections' = colls
               /\ points' = UpsertVectors(colls, EpisodicCollection, {point}, upsertOk)
               /\ RunEnds(p, [l EXCEPT !.stats.memories = @ + 1,
                                       !.vector = IF client /\ upsertOk /\ EpisodicCollection \in colls
                                                  THEN "written" ELSE "failed"],
                          "success")
       ELSE /\ RunEnds(p, l, "error")
            /\ UNCHANGED <<points, collections>>
    /\ UNCHANGED <<now, budget, factVars, wmVars, memories, client, turnVars>>

RunStep(p) ==
    \/ \E c \in ConversationIds : RunStart(p, c)
    \/ \E dbOk \in BOOLEAN : RunFetch(p, dbOk)
    \/ \E llmOk \in BOOLEAN, answer \in LlmAnswers : RunExtract(p, llmOk, answer)
    \/ \E dbOk \in BOOLEAN : RunFactSelect(p, dbOk)
    \/ \E dbOk \in BOOLEAN : RunFactWrite(p, dbOk)
    \/ \E e \in StoreEmbeddings, dbOk \in BOOLEAN : RunEpisodeCommit(p, e, dbOk)
    \/ \E dbOk, ensureOk, upsertOk \in BOOLEAN : RunEpisodeVector(p, dbOk, ensureOk, upsertOk)

\* ------------------------------------------------------------ initial state
NoBudget ==
    [tick |-> 0, upsert |-> 0, append |-> 0, store |-> 0, delete |-> 0, turn |-> 0,
     run |-> 0, query |-> 0]

\* A window as n earlier appends at time 0 left it
EarlierWindow(n) ==
    [i \in 1..n |-> [role |-> IF i % 2 = 1 THEN "user" ELSE "assistant",
                     content |-> "old", timestamp |-> IsoFormat(0)]]

InitCallers ==
    /\ now = 0
    /\ users = Users
    /\ pc = [p \in Procs |-> "idle"]
    /\ loc = [p \in Procs |-> Idle]
    /\ ret = [p \in Procs |-> NoRet]
    /\ runs = <<>>

InitProcs ==
    /\ InitCallers
    /\ convs = {}
    /\ messages = {}

InitFactsEmpty ==
    /\ facts = {}
    /\ calls = [k \in FactKeys |-> 0]

InitEpisodicEmpty ==
    /\ nextId = 1
    /\ memories = {}
    /\ points = {}
    /\ collections = {}
    /\ client = TRUE

\* Two memories user A stored at time 0, scoring 90 and 50 against E100
EarlierMemory(id) == NewMemoryRow(id, "A", CHOOSE m \in MemoryInputs : TRUE)
EarlierPoint(id, embedding) ==
    NewPoint(EarlierMemory(id), "A", CHOOSE m \in MemoryInputs : TRUE, embedding)

InitEpisodicEarlier ==
    \/ /\ nextId = 3
       /\ memories = { EarlierMemory(1), EarlierMemory(2) }
       /\ points = { EarlierPoint(1, E90), EarlierPoint(2, E50) }
       /\ collections = { EpisodicCollection }
       /\ client = TRUE
    \/ /\ nextId = 1
       /\ memories = {}
       /\ points = {}
       /\ collections = {}
       /\ client \in BOOLEAN

InitCacheEmpty ==
    /\ cache = [k \in CacheKeys |-> None]
    /\ appended = [u \in Users |-> <<>>]
    /\ wmFault = [u \in Users |-> FALSE]

\* User A starts with no window or with one an append short of the cap
InitCacheEarlier ==
    /\ appended \in { [u \in Users |-> IF u = "A" THEN w ELSE <<>>] :
                         w \in {<<>>, EarlierWindow(StmCap - 1)} }
    /\ cache = [k \in CacheKeys |->
                  IF appended[k[2]] = <<>> THEN None
                  ELSE Some([value |-> JsonDumps(appended[k[2]]), expireAt |-> STM_TTL])]
    /\ wmFault = [u \in Users |-> FALSE]

\* ------------------------------------------ one caller upserting in sequence
InitFactSeq ==
    /\ InitProcs /\ InitFactsEmpty /\ InitCacheEmpty /\ InitEpisodicEmpty
    /\ budget = [NoBudget EXCEPT !.tick = MaxTicks, !.upsert = MaxUpserts]

AddFactStep(p) ==
    \/ \E u \in Users, f \in FactInputs, dbOk \in BOOLEAN : AddFactSelect(p, u, f, dbOk)
    \/ \E dbOk \in BOOLEAN : AddFactReinforce(p, dbOk)
    \/ \E dbOk \in BOOLEAN : AddFactInsert(p, dbOk)

NextFactSeq ==
    \/ \E d \in TickSteps : Tick(d)
    \/ AddFactStep("p1")

SpecFactSeq == InitFactSeq /\ [][NextFactSeq]_vars

\* ------------------------------------ one caller upserting and querying
QueryCategories == {None} \cup { Some(c) : c \in {"preference", "work", "goal"} }

InitFactQuery ==
    /\ InitProcs /\ InitFactsEmpty /\ InitCacheEmpty /\ InitEpisodicEmpty
    /\ budget = [NoBudget EXCEPT !.upsert = MaxUpserts, !.query = MaxQueries]

NextFactQuery ==
    \/ AddFactStep("p1")
    \/ \E u \in Users, c \in QueryCategories, dbOk \in BOOLEAN : QueryFacts("p1", u, c, dbOk)

SpecFactQuery == InitFactQuery /\ [][NextFactQuery]_vars

\* --------------------------------------------- two callers upserting at once
InitFactConc ==
    /\ InitProcs /\ InitFactsEmpty /\ InitCacheEmpty /\ InitEpisodicEmpty
    /\ budget = [NoBudget EXCEPT !.upsert = MaxConcUpserts]

NextFactConc == \E p \in Procs : AddFactStep(p)

SpecFactConc == InitFactConc /\ [][NextFactConc]_vars

\* ------------------------------------- one caller on the working memory
InitWM ==
    /\ InitProcs /\ InitFactsEmpty /\ InitCacheEarlier /\ InitEpisodicEmpty
    /\ budget = [NoBudget EXCEPT !.tick = MaxWmTicks, !.append = MaxAppends]

NextWM ==
    \/ \E d \in WmTickSteps : Tick(d)
    \/ \E u \in Users, r \in Roles, c \in Contents, cacheOk \in BOOLEAN :
          AppendStmGet("p1", u, r, c, cacheOk)
    \/ \E cacheOk \in BOOLEAN : AppendStmSet("p1", cacheOk)
    \/ \E u \in Users, cacheOk \in BOOLEAN : StmRead("p1", u, cacheOk)

SpecWM == InitWM /\ [][NextWM]_vars

\* ------------------- one caller on the working memory while it expires
\* Steps of the clock that leave a window some of whose turns are older
\* than the TTL, and steps that let it expire
ExpiryTickSteps == {600, STM_TTL - 600, STM_TTL}

InitWMExpiry ==
    /\ InitProcs /\ InitFactsEmpty /\ InitCacheEarlier /\ InitEpisodicEmpty
    /\ budget = [NoBudget EXCEPT !.tick = MaxExpiryTicks, !.append = MaxAppends]

NextWMExpiry ==
    \/ \E d \in ExpiryTickSteps : Tick(d)
    \/ \E r \in Roles, c \in Contents, cacheOk \in BOOLEAN :
          AppendStmGet("p1", "A", r, c, cacheOk)
    \/ \E cacheOk \in BOOLEAN : AppendStmSet("p1", cacheOk)
    \/ \E cacheOk \in BOOLEAN : StmRead("p1", "A", cacheOk)

SpecWMExpiry == InitWMExpiry /\ [][NextWMExpiry]_vars

\* ------------------------- two callers on one user's working memory
\* The cache is reachable and the clock stands still: what is left is the
\* interleaving of the GET and the SET of two appends
InitWMConc ==
    /\ InitProcs /\ InitFactsEmpty /\ InitCacheEarlier /\ InitEpisodicEmpty
    /\ budget = [NoBudget EXCEPT !.append = MaxConcAppends]

NextWMConc ==
    \E p \in Procs :
        \/ \E r \in Roles, c \in Contents : AppendStmGet(p, "A", r, c, TRUE)
        \/ AppendStmSet(p, TRUE)
        \/ StmRead(p, "A", TRUE)

SpecWMConc == InitWMConc /\ [][NextWMConc]_vars

\* ------------------------------------- one caller on the episodic memory
RecallLimits == {1, RecallLimit}

InitEpisodic ==
    /\ InitProcs /\ InitFactsEmpty /\ InitCacheEmpty /\ InitEpisodicEarlier
    /\ budget = [NoBudget EXCEPT !.store = MaxStores, !.delete = MaxDeletes]

CreateMemoryStep(p) ==
    \/ \E u \in Users, md \in MemoryInputs, e \in StoreEmbeddings, dbOk \in BOOLEAN :
          CreateMemoryCommit(p, u, md, e, dbOk)
    \/ \E dbOk, ensureOk, upsertOk \in BOOLEAN :
          CreateMemoryVector(p, dbOk, ensureOk, upsertOk)

SearchMemoriesStep(p) ==
    \/ \E u \in Users, q \in QueryEmbeddings, limit \in RecallLimits,
          ensureOk, searchOk \in BOOLEAN :
          SearchMemoriesVector(p, u, q, limit, ensureOk, searchOk)
    \/ \E dbOk \in BOOLEAN : SearchMemoriesHydrate(p, dbOk)

NextEpisodic ==
    \/ CreateMemoryStep("p1")
    \/ SearchMemoriesStep("p1")
    \/ \E id \in 1..(nextId - 1) : pc["p1"] = "idle" /\ DeleteMemoryRow(id)

SpecEpisodic == InitEpisodic /\ [][NextEpisodic]_vars

\* ---------------- one caller storing, then recalling by the same vector
\* The index and the database are reachable when the caller recalls
InitRoundTrip ==
    /\ InitProcs /\ InitFactsEmpty /\ InitCacheEmpty /\ InitEpisodicEarlier
    /\ budget = [NoBudget EXCEPT !.store = MaxStores]

NextRoundTrip ==
    \/ CreateMemoryStep("p1")
    \/ \E u \in Users, q \in StoreEmbeddings, limit \in RecallLimits :
          SearchMemoriesVector("p1", u, q, limit, TRUE, TRUE)
    \/ SearchMemoriesHydrate("p1", TRUE)

SpecRoundTrip == InitRoundTrip /\ [][NextRoundTrip]_vars

\* ------------------- one caller writing to the three stores, for any user
\* The stores are empty, or hold what three earlier calls for user A left:
\* one turn, one fact (id 1) and one memory with its point (id 2).
EarlierFactInput ==
    CHOOSE f \in FactInputs : f.confidence_score = 90
EarlierTurn == EarlierWindow(1)

InitStoresEarlier ==
    /\ facts = { NewFactRow(1, "A", EarlierFactInput) }
    /\ calls = [k \in FactKeys |-> IF k = FactKey("A", EarlierFactInput) THEN 1 ELSE 0]
    /\ appended = [u \in Users |-> IF u = "A" THEN EarlierTurn ELSE <<>>]
    /\ cache = [k \in CacheKeys |->
                  IF k = StmKey("A")
                  THEN Some([value |-> JsonDumps(EarlierTurn), expireAt |-> STM_TTL])
                  ELSE None]
    /\ wmFault = [u \in Users |-> FALSE]
    /\ nextId = 3
    /\ memories = { EarlierMemory(2) }
    /\ points = { EarlierPoint(2, E90) }
    /\ collections = { EpisodicCollection }
    /\ client = TRUE

InitStores ==
    /\ InitProcs
    /\ \/ InitFactsEmpty /\ InitCacheEmpty /\ InitEpisodicEmpty
       \/ InitStoresEarlier
    /\ budget = [NoBudget EXCEPT !.upsert = MaxStoreOps, !.append = MaxStoreOps,
                                 !.store = MaxStoreOps]

\* Calls started so far, of the three kinds together
OpsStarted ==
    (MaxStoreOps - budget.upsert) + (MaxStoreOps - budget.append)
        + (MaxStoreOps - budget.store)

MayStart(p) == pc[p] = "idle" => OpsStarted < MaxStoreOps

AppendStmStep(p) ==
    \/ \E u \in Users, r \in Roles, c \in Contents, cacheOk \in BOOLEAN :
          AppendStmGet(p, u, r, c, cacheOk)
    \/ \E cacheOk \in BOOLEAN : AppendStmSet(p, cacheOk)

NextStores ==
    \/ MayStart("p1") /\ AppendStmStep("p1")
    \/ MayStart("p1") /\ AddFactStep("p1")
    \/ MayStart("p1") /\ CreateMemoryStep("p1")

SpecStores == InitStores /\ [][NextStores]_vars

\* ------------------------------------------------ one caller taking turns
\* The callers of a turn: user A, and a user id with no row in the users table
Strangers == {"Z"}
TurnUsers == {"A"} \cup Strangers

InitTurn ==
    /\ InitProcs
    /\ \/ InitFactsEmpty /\ InitCacheEmpty /\ InitEpisodicEmpty
       \/ InitStoresEarlier
    /\ budget = [NoBudget EXCEPT !.tick = MaxTurnTicks, !.turn = MaxTurns]

TurnStep(p) ==
    \/ \E u \in TurnUsers, m \in Messages, dbOk \in BOOLEAN :
          TurnFetchUser(p, u, m, dbOk)
    \/ \E dbOk \in BOOLEAN : TurnGetConversation(p, dbOk)
    \/ \E cacheOk \in BOOLEAN : TurnReadStm(p, cacheOk)
    \/ \E dbOk \in BOOLEAN : TurnReadFacts(p, dbOk)
    \/ \E e \in QueryEmbeddings, ensureOk, searchOk \in BOOLEAN :
          TurnSearch(p, e, ensureOk, searchOk)
    \/ \E dbOk \in BOOLEAN : TurnHydrate(p, dbOk)
    \/ \E dbOk \in BOOLEAN : TurnFormulate(p, dbOk)
    \/ \E llmOk \in BOOLEAN, reply \in Replies : TurnGenerate(p, llmOk, reply)
    \/ \E cacheOk \in BOOLEAN : TurnAppendGet(p, cacheOk)
    \/ \E cacheOk \in BOOLEAN : TurnAppendSet(p, cacheOk)
    \/ \E dbOk \in BOOLEAN : TurnPersist(p, dbOk)

NextTurn ==
    \/ \E d \in TurnTickSteps : Tick(d)
    \/ TurnStep("p1")

SpecTurn == InitTurn /\ [][NextTurn]_vars

\* ------------------------------- one caller taking turns on full stores
\* User A's stores hold more than a context takes: a window of 20 turns,
\* six facts (ids 5..10, two of them of equal confidence) and four
\* memories (ids 1..4) scoring 100, 90, 80 and 70 against the query.
FullFactInput(i) ==
    [ category |-> CASE i = 5 -> "preference" [] i = 6 -> "biographical" [] i = 7 -> "goal"
                     [] i = 8 -> "medical" [] i = 9 -> "relational" [] OTHER -> "work",
      value |-> "v", confidence_score |-> IF i = 10 THEN 90 ELSE 10 * i,
      source_message_id |-> None, metadata |-> "m1" ]

InitStoresFull ==
    /\ facts = { NewFactRow(i, "A", FullFactInput(i)) : i \in 5..10 }
    /\ calls = [k \in FactKeys |-> 0]
    /\ appended = [u \in Users |-> IF u = "A" THEN EarlierWindow(StmCap) ELSE <<>>]
    /\ cache = [k \in CacheKeys |->
                  IF k = StmKey("A")
                  THEN Some([value |-> JsonDumps(EarlierWindow(StmCap)), expireAt |-> STM_TTL])
                  ELSE None]
    /\ wmFault = [u \in Users |-> FALSE]
    /\ nextId = 11
    /\ memories = { EarlierMemory(i) : i \in 1..4 }
    /\ points = { EarlierPoint(1, E100), EarlierPoint(2, E90), EarlierPoint(3, E80),
                  EarlierPoint(4, E70) }
    /\ collections = { EpisodicCollection }
    /\ client = TRUE

InitTurnFull ==
    /\ InitProcs /\ InitStoresFull
    /\ budget = [NoBudget EXCEPT !.turn = MaxTurns]

NextTurnFull == TurnStep("p1")

SpecTurnFull == InitTurnFull /\ [][NextTurnFull]_vars

\* ------------ one caller taking turns on an empty, a short, a full window
InitTurnAppend ==
    /\ InitProcs
    /\ \/ InitFactsEmpty /\ InitCacheEmpty /\ InitEpisodicEmpty
       \/ InitStoresEarlier
       \/ InitStoresFull
    /\ budget = [NoBudget EXCEPT !.turn = MaxTurns]

NextTurnAppend == TurnStep("p1")

SpecTurnAppend == InitTurnAppend /\ [][NextTurnAppend]_vars

\* ------------------------------------------- one caller consolidating
EarlierConvs ==
    { [id |-> 1, user_id |-> "A", updated_at |-> 0],
      [id |-> 2, user_id |-> "B", updated_at |-> 0] }
EarlierMessages ==
    { [id |-> 3, conversation_id |-> 1, role |-> "user", content |-> "hello",
       timestamp |-> 0],
      [id |-> 4, conversation_id |-> 1, role |-> "assistant", content |-> "reply",
       timestamp |-> 0] }

InitPipeline ==
    /\ InitCallers
    /\ convs = EarlierConvs
    /\ messages = EarlierMessages
    /\ InitFactsEmpty /\ InitCacheEmpty
    /\ nextId = 5
    /\ memories = {}
    /\ points = {}
    /\ collections \in { {}, {EpisodicCollection} }
    /\ client = TRUE
    /\ budget = [NoBudget EXCEPT !.run = MaxRuns]

NextPipeline == RunStep("p1")

SpecPipeline == InitPipeline /\ [][NextPipeline]_vars

\* --------- one caller consolidating a short or a long conversation while
\* the user's window is stored, absent or expired
LongMessages ==
    { [id |-> 2 + i, conversation_id |-> 1,
       role |-> IF i % 2 = 1 THEN "user" ELSE "assistant",
       content |-> IF i % 2 = 1 THEN "hello" ELSE "reply",
       timestamp |-> i - (TranscriptCap + 1)] : i \in 1..(TranscriptCap + 1) }

InitTranscript ==
    /\ InitCallers
    /\ convs = EarlierConvs
    /\ messages \in { EarlierMessages, LongMessages }
    /\ InitFactsEmpty
    /\ InitCacheEarlier
    /\ nextId = TranscriptCap + 4
    /\ memories = {}
    /\ points = {}
    /\ collections = { EpisodicCollection }
    /\ client = TRUE
    /\ budget = [NoBudget EXCEPT !.tick = MaxWmTicks, !.run = MaxIsoRuns]

NextTranscript ==
    \/ \E d \in WmTickSteps : Tick(d)
    \/ RunStep("p1")

SpecTranscript == InitTranscript /\ [][NextTranscript]_vars

\* ------------- one caller upserting, querying, taking turns, consolidating
\* Every split of MaxFlowOps calls between add_fact, get_relevant_facts,
\* generate_response and process_conversation_background
InitNormalFlow ==
    /\ InitCallers
    /\ convs = EarlierConvs
    /\ messages = EarlierMessages
    /\ InitFactsEmpty /\ InitCacheEmpty
    /\ nextId = 5
    /\ memories = {}
    /\ points = {}
    /\ collections = { EpisodicCollection }
    /\ client = TRUE
    /\ \E u, q, t \in 0..MaxFlowOps :
          /\ u + q + t <= MaxFlowOps
          /\ budget = [NoBudget EXCEPT !.upsert = u, !.query = q, !.turn = t,
                                       !.run = MaxFlowOps - (u + q + t)]

NextNormalFlow ==
    \/ \E f \in FactInputs, dbOk \in BOOLEAN : AddFactSelect("p1", "A", f, dbOk)
    \/ \E dbOk \in BOOLEAN : AddFactReinforce("p1", dbOk)
    \/ \E dbOk \in BOOLEAN : AddFactInsert("p1", dbOk)
    \/ \E u \in Users, c \in QueryCategories, dbOk \in BOOLEAN : QueryFacts("p1", u, c, dbOk)
    \/ TurnStep("p1")
    \/ RunStep("p1")

SpecNormalFlow == InitNormalFlow /\ [][NextNormalFlow]_vars

\* ---------------- one caller taking a turn while another consolidates
\* The caller serving the turn request the runs go on beside
TurnCallers == {"p1"}

InitTurnRun ==
    /\ InitCallers
    /\ convs = EarlierConvs
    /\ messages = EarlierMessages
    /\ InitFactsEmpty
    /\ appended = [u \in Users |-> IF u = "A" THEN EarlierTurn ELSE <<>>]
    /\ cache = [k \in CacheKeys |->
                  IF k = StmKey("A")
                  THEN Some([value |-> JsonDumps(EarlierTurn), expireAt |-> STM_TTL])
                  ELSE None]
    /\ wmFault = [u \in Users |-> FALSE]
    /\ nextId = 5
    /\ memories = {}
    /\ points = {}
    /\ collections = { EpisodicCollection }
    /\ client = TRUE
    /\ budget = [NoBudget EXCEPT !.turn = Cardinality(TurnCallers), !.run = MaxIsoRuns]

\* User A's turn, and the run on A's conversation
NextTurnRun ==
    \/ \E m \in Messages, dbOk \in BOOLEAN : TurnFetchUser("p1", "A", m, dbOk)
    \/ \E dbOk \in BOOLEAN : TurnGetConversation("p1", dbOk)
    \/ \E cacheOk \in BOOLEAN : TurnReadStm("p1", cacheOk)
    \/ \E dbOk \in BOOLEAN : TurnReadFacts("p1", dbOk)
    \/ \E e \in QueryEmbeddings, ensureOk, searchOk \in BOOLEAN :
          TurnSearch("p1", e, ensureOk, searchOk)
    \/ \E dbOk \in BOOLEAN : TurnHydrate("p1", dbOk)
    \/ \E dbOk \in BOOLEAN : TurnFormulate("p1", dbOk)
    \/ \E llmOk \in BOOLEAN, reply \in Replies : TurnGenerate("p1", llmOk, reply)
    \/ \E cacheOk \in BOOLEAN : TurnAppendGet("p1", cacheOk)
    \/ \E cacheOk \in BOOLEAN : TurnAppendSet("p1", cacheOk)
    \/ \E dbOk \in BOOLEAN : TurnPersist("p1", dbOk)
    \/ RunStart("p2", 1)
    \/ \E dbOk \in BOOLEAN : RunFetch("p2", dbOk)
    \/ \E llmOk \in BOOLEAN, answer \in LlmAnswers : RunExtract("p2", llmOk, answer)
    \/ \E dbOk \in BOOLEAN : RunFactSelect("p2", dbOk)
    \/ \E dbOk \in BOOLEAN : RunFactWrite("p2", dbOk)
    \/ \E e \in StoreEmbeddings, dbOk \in BOOLEAN : RunEpisodeCommit("p2", e, dbOk)
    \/ \E dbOk, ensureOk, upsertOk \in BOOLEAN : RunEpisodeVector("p2", dbOk, ensureOk, upsertOk)

SpecTurnRun == InitTurnRun /\ [][NextTurnRun]_vars

\* ================================================================== claims
RowsOfKey(k) ==
    { r \in facts : <<r.user_id, r.category, r.value>> = k }

\* C1: after N >= 1 completed add_fact calls in sequence on a key
\* (user_id, category, value) the table holds exactly one row for the key,
\* and its reinforcement_count is N - 1; a key never upserted has no row.
C1_SequentialUpsert ==
    \A k \in FactKeys :
        IF calls[k] = 0 THEN RowsOfKey(k) = {}
        ELSE /\ Cardinality(RowsOfKey(k)) = 1
             /\ \A r \in RowsOfKey(k) : r.reinforcement_count = calls[k] - 1

C1_Witness ==
    \E k \in FactKeys :
        /\ calls[k] = MaxUpserts
        /\ \E r \in RowsOfKey(k) : r.reinforcement_count = MaxUpserts - 1

\* C2: in every interleaving of two callers' add_fact, the fact table holds
\* at most one row per (user_id, category, value).
C2_AtMostOneRowPerKey ==
    \A k \in FactKeys : Cardinality(RowsOfKey(k)) <= 1

\* C3: with the cache reachable and no expiry, the window read for a user
\* is the last min(20, k) of the k turns appended for that user, in
\* insertion order (so never more than 20).
C3_WindowCap ==
    \A u \in Users :
        (~wmFault[u] /\ pc["p1"] = "idle"
            /\ (cache[StmKey(u)] # None => RedisGet(StmKey(u)) # None))
        => /\ GetStmContext(u, TRUE) = LastN(appended[u], StmCap)
           /\ Len(GetStmContext(u, TRUE)) <= StmCap

C3_Witness ==
    \E u \in Users :
        /\ ~wmFault[u] /\ pc["p1"] = "idle"
        /\ Len(appended[u]) > StmCap
        /\ Len(GetStmContext(u, TRUE)) = StmCap
        /\ GetStmContext(u, TRUE)[StmCap] = appended[u][Len(appended[u])]

\* C9: get_stm_context returns the empty sequence when there is no live
\* window or the cache is unavailable, append_stm_message leaves the
\* stored window as it was when the cache is unavailable at its read or at
\* its write, and neither call raises.
C9_WMFailSoft ==
    \A p \in Procs :
        /\ ret[p].op = "get_stm_context" =>
              /\ ret[p].status = "ok"
              /\ (~ret[p].getOk \/ ~ret[p].live) => ret[p].value = <<>>
        /\ ret[p].op = "append_stm_message" =>
              /\ ret[p].status = "ok"
              /\ (~ret[p].getOk \/ ~ret[p].setOk) =>
                    cache[StmKey(ret[p].user_id)] = ret[p].before

\* The vector of the point stored for a memory id
VectorOf(id) == (CHOOSE q \in points : q.id = Str(id)).vector
IdsOf(seq) == [i \in 1..Len(seq) |-> seq[i].id]

\* C4: search_memories returns at most `limit` memories, each scoring at or
\* above the threshold 0.7 against the query, best first and none twice; a
\* point of the user at or above the threshold whose row exists is left
\* out only when `limit` better-or-equal ones were found.
C4_RecallThresholdOrder ==
    \A p \in Procs :
        (ret[p].op = "search_memories" /\ ret[p].status = "ok") =>
            LET out == ret[p].value
                sc(i) == Score(ret[p].query, VectorOf(out[i].id))
            IN /\ Len(out) <= ret[p].limit
               /\ \A i \in 1..Len(out) : sc(i) >= ScoreThreshold
               /\ \A i, j \in 1..Len(out) : i < j => (sc(i) >= sc(j) /\ out[i].id # out[j].id)
               /\ \A i \in 1..Len(out) : out[i].user_id = ret[p].user_id
               /\ \A i \in 1..Len(ret[p].hits) : ret[p].hits[i].score >= ScoreThreshold

\* scores 90, 80, 50 indexed for the user, limit 3: exactly the first two
C4_Witness ==
    \E p \in Procs :
        /\ ret[p].op = "search_memories" /\ ret[p].status = "ok"
        /\ ret[p].limit = RecallLimit
        /\ { Score(ret[p].query, q.vector) :
                q \in { x \in points : x.payload.user_id = Str(ret[p].user_id) } }
             = {90, 80, 50}
        /\ Len(ret[p].value) = 2
        /\ Score(ret[p].query, VectorOf(ret[p].value[1].id)) = 90
        /\ Score(ret[p].query, VectorOf(ret[p].value[2].id)) = 80

\* C5: a vector hit whose id has no row is dropped: the result is the hits
\* that have a row, in hit order, and a missing row never makes the recall
\* raise (only a failing select does).
C5_OrphanTolerance ==
    \A p \in Procs :
        ret[p].op = "search_memories" =>
            LET hitIds == IdsOf(ret[p].hits)
                hasRow(id) == id \in ret[p].rows
            IN /\ ret[p].status = "raised" => ret[p].error = "db"
               /\ ret[p].status = "ok" => IdsOf(ret[p].value) = SelectSeq(hitIds, hasRow)

C5_Witness ==
    \E p \in Procs :
        /\ ret[p].op = "search_memories" /\ ret[p].status = "ok"
        /\ Len(ret[p].hits) = 2
        /\ Len(ret[p].value) = 1
        /\ ret[p].value[1].id = ret[p].hits[2].id

\* What read(a), query(a) and recall(a, q, limit) return in the current
\* state when the stores are reachable
RecallResults(a, q, limit) ==
    { OrderedByHits(IdsOf([i \in 1..Len(s) |-> [id |-> UUID(s[i].id)]]), memories) :
        s \in VectorSearch(collections \cup {EpisodicCollection}, EpisodicCollection,
                           q, limit, a, TRUE) }

ViewOf(a) ==
    << GetStmContext(a, TRUE),
       GetRelevantFacts(a, None),
       [q \in QueryEmbeddings |-> [l \in RecallLimits |-> RecallResults(a, q, l)]] >>

\* The user a step of process p acts for
ActsFor(p, u) ==
    \/ pc[p] # "idle" /\ loc[p].user_id = u
    \/ pc[p] = "idle" /\ pc'[p] # "idle" /\ loc'[p].user_id = u

\* C6 (what the reads hold): the turns read for user a were appended for a,
\* the facts queried for a and the memories recalled for a are rows of a.
C6_OnlyOwnData ==
    \A a \in Users :
        /\ \A i \in 1..Len(GetStmContext(a, TRUE)) :
              \E j \in 1..Len(appended[a]) : appended[a][j] = GetStmContext(a, TRUE)[i]
        /\ \A s \in GetRelevantFacts(a, None) : \A i \in 1..Len(s) : s[i].user_id = a
        /\ \A q \in QueryEmbeddings, l \in RecallLimits :
              \A s \in RecallResults(a, q, l) : \A i \in 1..Len(s) : s[i].user_id = a

\* C6: after any sequence of append, upsert and store calls by any users,
\* read(a), query(a) and recall(a, ...) hold only a's data, and no step of
\* a call made for another user b changes what they return for a.
C6_TenantIsolation ==
    [][ \A a, b \in Users :
          (a # b /\ \E p \in Procs : ActsFor(p, b)) =>
              /\ ViewOf(a)' = ViewOf(a)
              /\ C6_OnlyOwnData' ]_vars

C6_Witness ==
    /\ Len(GetStmContext("A", TRUE)) > 0
    /\ GetRelevantFacts("A", None) # { <<>> }
    /\ \E q \in QueryEmbeddings : RecallResults("A", q, RecallLimit) # { <<>> }
    /\ ret["p1"].op = "append_stm_message" /\ ret["p1"].user_id = "B"
    /\ Len(GetStmContext("B", TRUE)) > 0

\* The parts of the context a turn assembles before it asks for a reply
Tiers == {"stm", "facts", "memories"}
AppendSteps == {"gr_app_user_get", "gr_app_user_set", "gr_app_asst_get", "gr_app_asst_set"}

\* A turn at or past llm.generate has its three tiers read or degraded, one
\* that appends has a reply, and one that failed at generation appended nothing
C7_State ==
    \A p \in Procs :
        /\ pc[p] \in {"gr_generate", "gr_persist"} \cup AppendSteps =>
              loc[p].assembled = Tiers
        /\ pc[p] \in {"gr_persist"} \cup AppendSteps => loc[p].response_text # None
        /\ ret[p].op = "generate_response" =>
              /\ ret[p].failedAt = "generate" =>
                    (ret[p].appends = 0 /\ ret[p].response_text = None)
              /\ ret[p].appends > 0 => ret[p].response_text # None

\* The window and the record of appends change only in the SET of an append
\* of a turn that has its reply: first the user's message, then the reply
C7_Step ==
    (appended' # appended \/ cache' # cache) =>
        \E p \in Procs :
            /\ pc[p] \in {"gr_app_user_set", "gr_app_asst_set"}
            /\ loc[p].assembled = Tiers
            /\ loc[p].response_text # None
            /\ \A u \in Users \ {loc[p].user_id} :
                  appended'[u] = appended[u] /\ cache'[StmKey(u)] = cache[StmKey(u)]
            /\ LET was == appended[loc[p].user_id]
                   is == appended'[loc[p].user_id]
               IN /\ Len(is) = Len(was) + 1
                  /\ SubSeq(is, 1, Len(was)) = was
                  /\ IF pc[p] = "gr_app_user_set"
                     THEN /\ loc[p].appends = 0
                          /\ is[Len(is)].role = "user"
                          /\ is[Len(is)].content = loc[p].message
                     ELSE /\ loc[p].appends = 1
                          /\ is[Len(is)].role = "assistant"
                          /\ is[Len(is)].content = loc[p].response_text[1]
                          /\ was[Len(was)].role = "user"
                          /\ was[Len(was)].content = loc[p].message

\* C7: within one turn, the WM read, the fact query and the episodic recall
\* have completed or degraded before the reply is generated; the exchange is
\* appended to WM only after generation has succeeded, the user's input
\* first and the reply second; a turn whose generation fails appends nothing.
C7_TurnOrdering == []C7_State /\ [][C7_Step]_vars

\* a turn that returned its reply after appending the exchange to a window
\* that held a turn already
C7_Witness ==
    \E p \in Procs :
        /\ ret[p].op = "generate_response" /\ ret[p].failedAt = "none"
        /\ ret[p].appends = 2
        /\ LET w == appended[ret[p].user_id] IN
              /\ Len(w) >= 3
              /\ w[Len(w) - 1].role = "user" /\ w[Len(w) - 1].content = ret[p].message
              /\ w[Len(w)].role = "assistant"
              /\ w[Len(w)].content = ret[p].response_text[1]

\* C8: a turn does not end with the apology because the fact query or the
\* hydration of the episodic recall failed; the failed tier contributes
\* nothing and the turn goes on to the reply.
C8_DegradedAssembly ==
    \A p \in Procs :
        (ret[p].op = "generate_response" /\ ret[p].failedAt \in TierSteps) =>
            ret[p].value # Apology

\* The seconds between a turn's last window entry and its freshness check
GapOf(l) == l.formulated_at - FromIsoFormat(l.stm_context[Len(l.stm_context)].timestamp)
Formulated(p) ==
    loc[p].op = "generate_response" /\ loc[p].session_instruction # "unset"

\* C10: the session instruction of a turn follows from the window it read
\* and the time since the window's last turn: the greeting for an empty
\* window, the time-has-passed note for a last turn 30 minutes old or more,
\* and no instruction for a last turn less than 30 minutes old.
C10_FreshnessSignal ==
    \A p \in Procs :
        Formulated(p) =>
            loc[p].session_instruction =
                IF loc[p].stm_context = <<>> THEN "brand new session"
                ELSE IF GapOf(loc[p]) >= FreshGap THEN "time has passed"
                ELSE "none"

\* a window whose last turn is exactly 30 minutes old reads as stale
C10_Witness ==
    \E p \in Procs :
        /\ Formulated(p)
        /\ loc[p].stm_context # <<>>
        /\ GapOf(loc[p]) = FreshGap
        /\ loc[p].session_instruction = "time has passed"

\* C11: create_episodic_memory has committed its row when it turns to the
\* vector index, and the vector step leaves the table as it is; when the
\* point is not written (an error of the index, or no client) the call
\* still returns the committed row, and it raises only on a database error.
C11_StoreSurvivesVectorFailure ==
    [][\A p \in Procs :
          /\ (pc[p] = "idle" /\ pc'[p] = "cem_vector") =>
                (loc'[p].db_memory \in memories' /\ points' = points)
          /\ (pc[p] = "cem_vector" /\ pc'[p] = "idle") =>
                /\ memories' = memories
                /\ loc[p].db_memory \in memories'
                /\ ret'[p].status = "raised" => ret'[p].error = "db"
                /\ ret'[p].status = "ok" =>
                      /\ ret'[p].value = loc[p].db_memory
                      /\ ret'[p].vector = "failed" => points' = points
      ]_vars

\* a store that returned its row although no point was written for it
C11_Witness ==
    \E p \in Procs :
        /\ ret[p].op = "create_episodic_memory" /\ ret[p].status = "ok"
        /\ ret[p].vector = "failed"
        /\ ret[p].value \in memories
        /\ \A q \in points : q.id # Str(ret[p].value.id)

\* The rows a query for a user, and for a category when one is given, is about
RowsAsked(user_id, category) ==
    { r \in facts : r.user_id = user_id /\ (category # None => r.category = category[1]) }

\* C12: get_relevant_facts returns every fact row of the user (of the given
\* category when one is given) once and no other row, highest
\* confidence_score first; with one caller, the rows are those the upserts
\* before the query left in the table.
C12_FactQuery ==
    \A p \in Procs :
        (ret[p].op = "get_relevant_facts" /\ ret[p].status = "ok") =>
            LET out == ret[p].value
                asked == RowsAsked(ret[p].user_id, ret[p].category)
            IN /\ { out[i] : i \in 1..Len(out) } = asked
               /\ Len(out) = Cardinality(asked)
               /\ \A i, j \in 1..Len(out) :
                     i < j => out[i].confidence_score >= out[j].confidence_score

\* a query without category that returned two rows of unequal confidence,
\* one of them reinforced by the upsert before
C12_Witness ==
    \E p \in Procs :
        /\ ret[p].op = "get_relevant_facts" /\ ret[p].status = "ok"
        /\ ret[p].category = None
        /\ Len(ret[p].value) = 2
        /\ ret[p].value[1].confidence_score > ret[p].value[2].confidence_score
        /\ \E i \in 1..2 : ret[p].value[i].reinforcement_count = 1

\* C13: an add_fact that finds its key's row replaces that row by one that
\* differs from it in reinforcement_count (one more), last_reinforced_at
\* (the time of the call) and metadata (the call's) only, touches no other
\* row, and returns the row it found, as updated.
C13_ReinforcementFrame ==
    [][\A p \in Procs :
          (pc[p] = "af_reinforce" /\ pc'[p] = "idle" /\ ret'[p].status = "ok") =>
             \E old \in facts :
                LET new == ret'[p].value IN
                /\ <<old.user_id, old.category, old.value>> =
                      FactKey(loc[p].user_id, loc[p].fact_data)
                /\ facts' = (facts \ {old}) \cup {new}
                /\ new.reinforcement_count = old.reinforcement_count + 1
                /\ new.last_reinforced_at = Some(now)
                /\ new.metadata = loc[p].fact_data.metadata
                /\ new.id = old.id
                /\ new.user_id = old.user_id
                /\ new.category = old.category
                /\ new.value = old.value
                /\ new.confidence_score = old.confidence_score
                /\ new.source_message_id = old.source_message_id
                /\ new.created_at = old.created_at
      ]_vars

\* the row of an upsert with confidence 0.9, after one with confidence 0.5
\* on the same key: confidence and source as first written, metadata replaced
C13_Witness ==
    \E p \in Procs, r \in facts :
        /\ ret[p].op = "add_fact" /\ ret[p].status = "ok" /\ ret[p].value = r
        /\ r.reinforcement_count = 1
        /\ r.confidence_score = 90 /\ r.source_message_id = None
        /\ r.metadata = "m2"
        /\ r.last_reinforced_at # None

\* A turn that has read its three tiers and has not yet appended
Assembled(p) ==
    pc[p] \in {"gr_entities", "gr_generate"} /\ loc[p].assembled = Tiers

\* C14: the context a turn has assembled holds at most 20 turns, which are
\* the stored window in its order (or none), at most 5 facts, which are the
\* user's facts of highest confidence_score, highest first, and at most 3
\* memories.
C14_BoundedContext ==
    \A p \in Procs :
        Assembled(p) =>
            LET l == loc[p]
                f == l.relevant_facts
                mine == { r \in facts : r.user_id = l.user_id }
                taken == { f[i] : i \in 1..Len(f) }
            IN /\ Len(l.stm_context) <= StmCap
               /\ l.stm_context # <<>> =>
                     /\ cache[StmKey(l.user_id)] # None
                     /\ l.stm_context = JsonLoads(cache[StmKey(l.user_id)][1].value)
               /\ Len(ChatHistoryStr(l.stm_context)) <= StmCap
               /\ l.stm_context # <<>> =>
                     \A i \in 1..Len(l.stm_context) :
                        ChatHistoryStr(l.stm_context)[i][2] = l.stm_context[i].content
               /\ Len(f) = Min(FactLimit, Cardinality(mine))
               /\ taken \subseteq mine /\ Cardinality(taken) = Len(f)
               /\ \A i, j \in 1..Len(f) :
                     i < j => f[i].confidence_score >= f[j].confidence_score
               /\ \A r \in mine \ taken, t \in taken :
                     r.confidence_score <= t.confidence_score
               /\ Len(l.memories) <= RecallLimit

\* a context cut on all three sides: 20 turns, 5 of 6 facts, 3 of 4 memories
C14_Witness ==
    \E p \in Procs :
        /\ Assembled(p)
        /\ Len(loc[p].stm_context) = StmCap
        /\ Len(loc[p].relevant_facts) = FactLimit
        /\ Cardinality({ r \in facts : r.user_id = loc[p].user_id }) > FactLimit
        /\ Len(loc[p].memories) = RecallLimit
        /\ Cardinality({ m \in memories : m.user_id = loc[p].user_id }) > RecallLimit

\* The state of a caller's consolidation run: its stage while it runs, and
\* DONE, SKIPPED or FAILED by the status it ended with
RunState(at, r) ==
    IF Stage(at) # "NONE" THEN Stage(at)
    ELSE IF r.op # "process_conversation_background" THEN "NONE"
    ELSE CASE r.status = "success" -> "DONE"
           [] r.status = "skipped" -> "SKIPPED"
           [] OTHER -> "FAILED"

StageOrder ==
    <<"FETCH_TRANSCRIPT", "EXTRACT", "PERSIST_FACTS", "PERSIST_EPISODE", "DONE">>

\* A step of a running invocation stays in its stage, moves to the next
\* stage of the order, goes to FAILED, or makes one of the `other` moves
RunMoves(p, other) ==
    LET from == RunState(pc[p], ret[p])
        to == RunState(pc'[p], ret'[p])
    IN Stage(pc[p]) # "NONE" =>
          \/ to = from
          \/ \E i \in 1..(Len(StageOrder) - 1) : from = StageOrder[i] /\ to = StageOrder[i + 1]
          \/ to = "FAILED"
          \/ <<from, to>> \in other

\* Facts are written in PERSIST_FACTS of a run whose extraction parsed, the
\* episode in PERSIST_EPISODE after the last candidate fact, and a run
\* that has ended stays as it ended
RunWrites ==
    /\ facts' # facts =>
          \E p \in Procs : Stage(pc[p]) = "PERSIST_FACTS" /\ loc[p].data # None
    /\ (memories' # memories \/ points' # points) =>
          \E p \in Procs : /\ Stage(pc[p]) = "PERSIST_EPISODE"
                           /\ loc[p].done = Len(loc[p].data[1].facts)
                           /\ loc[p].stats.facts = Len(loc[p].data[1].facts)
    /\ Len(runs') >= Len(runs) /\ SubSeq(runs', 1, Len(runs)) = runs

\* C15 as stated: every step of a run keeps its stage, moves to the next of
\* FETCH_TRANSCRIPT, EXTRACT, PERSIST_FACTS, PERSIST_EPISODE, DONE, or goes
\* to FAILED.
C15_AsStated == [][\A p \in Procs : RunMoves(p, {}) /\ RunWrites]_vars

\* C15: as above, with one more move: a run whose conversation has no
\* messages ends SKIPPED from FETCH_TRANSCRIPT. No fact is written before
\* the extraction has parsed, the episode only after every candidate fact.
C15_ConsolidationOrder ==
    [][\A p \in Procs : RunMoves(p, {<<"FETCH_TRANSCRIPT", "SKIPPED">>}) /\ RunWrites]_vars

\* a run that ended DONE after two facts and an episode
C15_Witness ==
    \E p \in Procs :
        /\ RunState(pc[p], ret[p]) = "DONE"
        /\ ret[p].stats = [facts |-> 2, memories |-> 1]
        /\ ret[p].made # {}

\* C16: a run whose llm.generate raises or whose answer json.loads rejects
\* ends with status error at EXTRACT, and facts, episodic rows and points
\* are then as they were when the run was called; a run leaves EXTRACT for
\* the persistence stages only with a parsed answer.
C16_ExtractionFailureCommitsNothing ==
    [][\A p \in Procs :
          pc[p] = "pl_extract" =>
             /\ pc'[p] # "idle" => loc'[p].data # None
             /\ pc'[p] = "idle" =>
                   /\ ret'[p].status = "error"
                   /\ ret'[p].stats = [facts |-> 0, memories |-> 0]
                   /\ facts' = loc[p].before.facts
                   /\ memories' = loc[p].before.memories
                   /\ points' = loc[p].before.points
      ]_vars

\* a second run that failed at EXTRACT after a first one had written
C16_Witness ==
    /\ Len(runs) = 2
    /\ runs[1].status = "success" /\ runs[1].stats.facts > 0
    /\ runs[2].status = "error" /\ runs[2].stage = "EXTRACT"
    /\ facts = runs[2].before.facts /\ facts # {}

\* A fact row without its reinforcement fields
FactIdentity(r) ==
    [ id |-> r.id, user_id |-> r.user_id, category |-> r.category, value |-> r.value,
      confidence_score |-> r.confidence_score,
      source_message_id |-> r.source_message_id, created_at |-> r.created_at ]

\* The keys of the candidate facts of an ended run
RunKeys(r) ==
    { FactKey(r.user_id[1], CandidateFactCreate(r.data[1].facts[i])[1]) :
         i \in 1..Len(r.data[1].facts) }

\* The last ended run is a successful rerun: the run before it succeeded on
\* the same conversation with the same extraction result
IsRerun ==
    /\ \A p \in Procs : pc[p] = "idle"
    /\ Len(runs) >= 2
    /\ LET r == runs[Len(runs)]
           q == runs[Len(runs) - 1]
       IN /\ r.status = "success" /\ q.status = "success"
          /\ r.conversation_id = q.conversation_id
          /\ r.data = q.data

\* C17: after a successful rerun the fact rows are those there were before
\* it, one row per key, up to their reinforcement fields; each row of a key
\* of the extraction result has been reinforced once more.
C17_FactLayerIdempotence ==
    IsRerun =>
       LET r == runs[Len(runs)]
           before == r.before.facts
       IN /\ { FactIdentity(x) : x \in facts } = { FactIdentity(x) : x \in before }
          /\ Cardinality(facts) = Cardinality(before)
          /\ \A k \in RunKeys(r) : Cardinality(RowsOfKey(k)) = 1
          /\ \A x \in facts, y \in before :
                x.id = y.id =>
                   x.reinforcement_count =
                      IF <<x.user_id, x.category, x.value>> \in RunKeys(r)
                      THEN y.reinforcement_count + 1 ELSE y.reinforcement_count

\* a rerun of an extraction result with two candidate facts
C17_Witness ==
    /\ IsRerun
    /\ Cardinality(RunKeys(runs[Len(runs)])) = 2
    /\ \A x \in facts : x.reinforcement_count = 1

\* A caller's run ends with status success in this step
RunSucceeds(p) ==
    /\ Stage(pc[p]) # "NONE"
    /\ pc'[p] = "idle"
    /\ ret'[p].status = "success"

\* The episodic rows the successful runs so far have made for the
\* conversation and extraction result of run r
RowsOfReruns(r, ended, rows) ==
    { m \in rows : \E i \in 1..Len(ended) :
         /\ ended[i].status = "success"
         /\ ended[i].conversation_id = r.conversation_id
         /\ ended[i].data = r.data
         /\ m.id \in ended[i].made }

RerunsOf(r, ended) ==
    { i \in 1..Len(ended) : /\ ended[i].status = "success"
                            /\ ended[i].conversation_id = r.conversation_id
                            /\ ended[i].data = r.data }

\* What a successful run has added to the episodic rows; withPoint tells for
\* a run whether the point of its row must be there
EpisodeAdded(p, withPoint(_)) ==
    LET r == ret'[p]
        mem_data == r.data[1].memory
        newRows == memories' \ r.before.memories
        newPoints == points' \ r.before.points
    IN /\ r.before.memories \subseteq memories'
       /\ r.before.points \subseteq points'
       /\ IF mem_data = None
          THEN newRows = {} /\ newPoints = {}
          ELSE /\ Cardinality(newRows) = 1
               /\ \A m \in newRows :
                     /\ \A o \in r.before.memories : o.id # m.id
                     /\ r.made = {m.id}
                     /\ m.content = mem_data[1].content[1]
                     /\ m.summary = mem_data[1].summary[1]
                     /\ IF withPoint(r)
                        THEN \E pt \in newPoints : newPoints = {pt} /\ pt.id = Str(m.id)
                        ELSE newPoints = {}
               /\ LET same == RowsOfReruns(r, runs', memories') IN
                     /\ Cardinality(same) = Cardinality(RerunsOf(r, runs'))
                     /\ \A m, o \in same : m.content = o.content /\ m.summary = o.summary

\* C18 as stated: a successful run with a candidate episode adds one row
\* with a fresh id and one point with that id.
C18_AsStated ==
    [][\A p \in Procs : RunSucceeds(p) => EpisodeAdded(p, LAMBDA r : TRUE)]_vars

\* C18: a successful run with a candidate episode adds one row with a fresh
\* id, and one point with that id when the vector write went through, none
\* when it was given up; k reruns leave k rows of the same content; a run
\* without a candidate episode adds neither row nor point.
C18_EpisodicNonIdempotence ==
    [][\A p \in Procs : RunSucceeds(p) => EpisodeAdded(p, LAMBDA r : r.vector = "written")]_vars

\* two successful runs of the same extraction result have left two rows of
\* the same content, the second without its point
C18_Witness ==
    /\ \A p \in Procs : pc[p] = "idle"
    /\ Len(runs) = 2
    /\ Cardinality(RerunsOf(runs[2], runs)) = 2
    /\ runs[2].data[1].memory # None
    /\ Cardinality(RowsOfReruns(runs[2], runs, memories)) = 2
    /\ runs[1].vector = "written" /\ runs[2].vector = "failed"
    /\ Cardinality(points) = 1

\* The points keyed by a row's id, and the rows a point id resolves to
PointsOfRow(m) == { q \in points : q.id = Str(m.id) }
RowsOfPoint(q) == { m \in memories : m.id = UUID(q.id) }

\* C19: each episodic row has at most one point, keyed by the row's id and
\* written for that row; each point id resolves to at most one row; each
\* hit of a recall is returned as exactly one row, or as none when its row
\* is missing.
C19_RowVectorPairing ==
    /\ \A m \in memories :
          /\ Cardinality(PointsOfRow(m)) <= 1
          /\ \A q \in PointsOfRow(m) :
                /\ q.payload.user_id = Str(m.user_id)
                /\ q.payload.summary = m.summary
    /\ \A q \in points : Cardinality(RowsOfPoint(q)) <= 1
    /\ \A p \in Procs :
          (ret[p].op = "search_memories" /\ ret[p].status = "ok") =>
             \A i \in 1..Len(ret[p].hits) :
                Cardinality({ j \in 1..Len(ret[p].value) :
                                 ret[p].value[j].id = ret[p].hits[i].id })
                   = IF ret[p].hits[i].id \in ret[p].rows THEN 1 ELSE 0

\* a recall whose two hits were one row with its point and one orphan,
\* while another row has no point
C19_Witness ==
    /\ \E m \in memories : PointsOfRow(m) = {}
    /\ \E q \in points : RowsOfPoint(q) = {}
    /\ \E p \in Procs :
          /\ ret[p].op = "search_memories" /\ ret[p].status = "ok"
          /\ Len(ret[p].hits) = 2 /\ Len(ret[p].value) = 1

\* C20: in every step of upserts, queries, turns and consolidation runs,
\* each fact row stays in the table under its id and key with a
\* reinforcement_count that is at least what it was, and no count is
\* negative; so the set of keys present only grows.
C20_FactsNeverDeleted ==
    [][ /\ \A r \in facts :
              /\ r.reinforcement_count >= 0
              /\ \E n \in facts' :
                    /\ n.id = r.id
                    /\ <<n.user_id, n.category, n.value>> = <<r.user_id, r.category, r.value>>
                    /\ n.reinforcement_count >= r.reinforcement_count
        /\ \A n \in facts' : n.reinforcement_count >= 0
      ]_vars

\* a row upserted by add_fact and reinforced by a consolidation run
C20_Witness ==
    /\ Len(runs) = 1 /\ runs[1].status = "success"
    /\ \E k \in FactKeys : calls[k] = 2 /\ \A r \in RowsOfKey(k) : r.reinforcement_count = 1
    /\ \E r \in facts : r.reinforcement_count = 0

\* The window stored under a user's key, live or not
StoredWindow(u) == JsonLoads(cache[StmKey(u)][1].value)

\* C21: a stored window expires STM_TTL after its last append; until then
\* a read with the cache reachable returns the whole stored window, from
\* then on the empty sequence; a read never returns a part of the window.
C21_WholeWindowExpiry ==
    /\ \A u \in Users :
          cache[StmKey(u)] # None =>
             LET w == StoredWindow(u)
                 written == FromIsoFormat(w[Len(w)].timestamp)
             IN /\ w # <<>>
                /\ cache[StmKey(u)][1].expireAt = written + STM_TTL
                /\ GetStmContext(u, TRUE) = IF now < written + STM_TTL THEN w ELSE <<>>
    /\ \A u \in Users : cache[StmKey(u)] = None => GetStmContext(u, TRUE) = <<>>
    /\ \A p \in Procs :
          (ret[p].op = "get_stm_context" /\ pc[p] = "idle") =>
             \/ ret[p].value = <<>>
             \/ /\ cache[StmKey(ret[p].user_id)] # None
                /\ ret[p].value = StoredWindow(ret[p].user_id)

\* a read has returned the whole of a live window whose first turn is older
\* than the TTL
C21_Witness ==
    \E p \in Procs :
        /\ ret[p].op = "get_stm_context" /\ pc[p] = "idle"
        /\ RedisGet(StmKey(ret[p].user_id)) # None
        /\ Len(ret[p].value) >= 2
        /\ ret[p].value = StoredWindow(ret[p].user_id)
        /\ now >= FromIsoFormat(ret[p].value[1].timestamp) + STM_TTL

\* C22: with the cache reachable and no expiry, each of the last 20 turns
\* whose append has returned is in the window a read returns, also when the
\* appends of two callers interleave.
C22_AppendVisibility ==
    \A u \in Users :
        (~wmFault[u] /\ (cache[StmKey(u)] # None => RedisGet(StmKey(u)) # None)) =>
            LET returned == LastN(appended[u], StmCap)
                window == GetStmContext(u, TRUE)
            IN \A i \in 1..Len(returned) : \E j \in 1..Len(window) : window[j] = returned[i]

\* What generate_response may return for a user and a message, however it
\* was scheduled, with the step it failed at
TurnOutcomes(user_id, message) ==
    LET base == [ op |-> "generate_response", status |-> "ok", value |-> Apology,
                  user_id |-> user_id, message |-> message, failedAt |-> "none",
                  response_text |-> None, appends |-> 0 ]
        said == IF message = START_SESSION THEN 0 ELSE 2
    IN { [base EXCEPT !.failedAt = step] :
            step \in {"user", "conversation", "facts", "hydrate", "entities", "generate"} }
       \cup { [base EXCEPT !.failedAt = "persist", !.response_text = Some(r), !.appends = 2] :
                 r \in { x \in Replies : message # START_SESSION } }
       \cup { [base EXCEPT !.value = Strip(r), !.response_text = Some(r), !.appends = said] :
                 r \in Replies }

\* Process q takes a step of a consolidation run
IsRunStep(q) ==
    /\ pc'[q] # pc[q]
    /\ Stage(pc[q]) # "NONE" \/ Stage(pc'[q]) # "NONE"

\* Every run that has ended has ended FAILED, and none is running
OnlyFailedRuns ==
    /\ runs # <<>>
    /\ \A i \in 1..Len(runs) : runs[i].status \in {"error", "raised"}
    /\ \A q \in Procs : Stage(pc[q]) = "NONE"

C23_State ==
    /\ \A p \in Procs :
          (pc[p] \notin {"idle"} /\ loc[p].op = "generate_response") => ENABLED TurnStep(p)
    /\ \A p \in Procs :
          (OnlyFailedRuns /\ pc[p] = "idle" /\ ret[p].op = "generate_response") =>
             /\ ret[p] \in TurnOutcomes(ret[p].user_id, ret[p].message)
             /\ ret[p].failedAt # "hydrate"

C23_Step ==
    \A q \in Procs :
        IsRunStep(q) =>
           /\ UNCHANGED <<cache, appended, wmFault, users, convs, messages, now>>
           /\ \A p \in Procs \ {q} : pc'[p] = pc[p] /\ loc'[p] = loc[p] /\ ret'[p] = ret[p]

\* C23: no step of a consolidation run changes the working memory, the
\* transcript or the state of a turn served at the same time; the turn can
\* always take its next step; and beside runs that ended FAILED a turn
\* returns what it may return when served alone.
C23_RunFailureIsolated == []C23_State /\ [][C23_Step]_vars

\* a turn that answered and persisted its exchange between the two fact
\* inserts of a run that then failed
C23_Witness ==
    /\ OnlyFailedRuns
    /\ \E i \in 1..Len(runs) : runs[i].stats.facts = 2 /\ runs[i].user_id = Some("A")
    /\ \E p \in Procs :
          /\ pc[p] = "idle" /\ ret[p].op = "generate_response"
          /\ ret[p].user_id = "A" /\ ret[p].failedAt = "none" /\ ret[p].appends = 2
    /\ \E f, g \in facts, m \in messages : f.id < m.id /\ m.id < g.id

\* The memories of the caller of a recall that were stored, point
\* included, with the embedding the recall asks for
StoredAs(r) ==
    { m \in memories : /\ m.user_id = r.user_id
                       /\ \E q \in PointsOfRow(m) : q.vector = r.query }

\* The other points of the user that score as high against the query
AsHigh(r, m) ==
    { q \in points : /\ q.payload.user_id = Str(r.user_id)
                     /\ q.id # Str(m.id)
                     /\ Score(r.query, q.vector) >= Score(r.query, VectorOf(m.id)) }

\* The recall holds the memory, and first when first is TRUE
Recalled(r, m, first) ==
    /\ r.value # <<>>
    /\ \E i \in 1..Len(r.value) : r.value[i] = m
    /\ first => r.value[1] = m

\* C24 as stated: a recall by the embedding a memory was stored with
\* returns that memory, and first when no other vector of the user scores
\* as high.
C24_AsStated ==
    \A p \in Procs :
        (pc[p] = "idle" /\ ret[p].op = "search_memories" /\ ret[p].status = "ok") =>
           \A m \in StoredAs(ret[p]) : Recalled(ret[p], m, AsHigh(ret[p], m) = {})

\* C24: a recall by the embedding a memory was stored with returns that
\* memory when fewer than `limit` other vectors of the user score as high,
\* and returns it first when none does.
C24_StoreThenRecall ==
    \A p \in Procs :
        (pc[p] = "idle" /\ ret[p].op = "search_memories" /\ ret[p].status = "ok") =>
           \A m \in StoredAs(ret[p]) :
              /\ Cardinality(AsHigh(ret[p], m)) < ret[p].limit =>
                    Recalled(ret[p], m, AsHigh(ret[p], m) = {})
              /\ ret[p].value # <<>>

\* a recall with limit 1 returned the stored memory first, ahead of
\* another memory of the user that scores lower
C24_Witness ==
    \E p \in Procs :
        /\ pc[p] = "idle" /\ ret[p].op = "search_memories" /\ ret[p].status = "ok"
        /\ ret[p].limit = 1
        /\ \E m \in StoredAs(ret[p]) :
              /\ ret[p].value = <<m>>
              /\ AsHigh(ret[p], m) = {}
              /\ \E q \in points : q.payload.user_id = Str(ret[p].user_id) /\ q.id # Str(m.id)

\* The turn of process p ends in this step with the reply as its value
TurnSucceeds(p) ==
    /\ pc[p] # "idle" /\ loc[p].op = "generate_response"
    /\ pc'[p] = "idle"
    /\ ret'[p].failedAt = "none"

\* The last two turns of a window are the message and the reply
EndsWithExchange(w, message, reply) ==
    /\ Len(w) >= 2
    /\ w[Len(w) - 1].role = "user" /\ w[Len(w) - 1].content = message
    /\ w[Len(w)].role = "assistant" /\ w[Len(w)].content = reply

\* What a turn does to the window and the transcript; reachable tells for
\* a user whether the window is required to hold the exchange
TurnRecords(p, reachable(_)) ==
    \A u \in Users : loc[p].user_id = u =>
       LET real == loc[p].message # START_SESSION
           before == GetStmContext(u, TRUE)
       IN /\ ~real => /\ UNCHANGED <<cache, appended, messages>>
                      /\ pc'[p] \notin AppendSteps \cup {"gr_persist"}
          /\ (real /\ pc[p] \in {"gr_app_user_set", "gr_app_asst_set"} /\ reachable(u)) =>
                GetStmContext(u, TRUE)' =
                   AppendedWindow(before,
                                  IF pc[p] = "gr_app_user_set"
                                  THEN NewTurn("user", loc[p].message)
                                  ELSE NewTurn("assistant", loc[p].response_text[1]))
          /\ TurnSucceeds(p) =>
                /\ ret'[p].appends = IF real THEN 2 ELSE 0
                /\ (real /\ reachable(u)) =>
                      /\ EndsWithExchange(GetStmContext(u, TRUE)', loc[p].message,
                                          loc[p].response_text[1])
                      /\ Len(GetStmContext(u, TRUE)') <= StmCap
                /\ real => Cardinality(messages') = Cardinality(messages) + 2

\* C25 as stated: a successful turn for a real message leaves the window
\* longer by the user turn and the assistant turn; a START_SESSION turn
\* leaves window and transcript as they are.
C25_AsStated ==
    [][\A p \in Procs :
          (pc[p] # "idle" /\ loc[p].op = "generate_response") =>
             TurnRecords(p, LAMBDA u : TRUE)]_vars

\* C25: the same, for the turns during whose appends the cache was
\* reachable: when it is not, the turn succeeds without its exchange in the
\* window.
C25_TurnGrowsWindowByTwo ==
    [][\A p \in Procs :
          (pc[p] # "idle" /\ loc[p].op = "generate_response") =>
             TurnRecords(p, LAMBDA u : ~wmFault'[u])]_vars

\* a successful turn has left a full window ending with its exchange
C25_Witness ==
    \E p \in Procs :
        /\ pc[p] = "idle" /\ ret[p].op = "generate_response"
        /\ ret[p].failedAt = "none" /\ ret[p].message # START_SESSION
        /\ ~wmFault[ret[p].user_id]
        /\ Len(GetStmContext(ret[p].user_id, TRUE)) = StmCap
        /\ EndsWithExchange(GetStmContext(ret[p].user_id, TRUE), ret[p].message,
                            ret[p].response_text[1])
        /\ Len(appended[ret[p].user_id]) = StmCap + 2

\* The status values a run reports to its caller
ReportedStatuses == {"success", "skipped", "error"}

\* C26: every consolidation run that has ended has reported one of the
\* status values success, skipped or error to its caller, whichever step
\* failed; none has ended as an exception leaving the coroutine.
C26_EveryRunReportsStatus ==
    \A i \in 1..Len(runs) : runs[i].status \in ReportedStatuses

\* C27: a run whose model answer holds a JSON object, inside a code fence
\* or between other text, gets past EXTRACT with that object as its data;
\* only a run whose answer holds no JSON object fails in EXTRACT.
C27_ParseTolerance ==
    \A i \in 1..Len(runs) :
        runs[i].answer # None =>
           LET recovered == JsonSearchBraces(StripFences(runs[i].answer[1]))
               failed == runs[i].status = "error" /\ runs[i].stage = "EXTRACT"
           IN /\ failed <=> recovered = None
              /\ ~failed => runs[i].data = recovered

\* t holds the most recent rows of conversation c, at most TranscriptCap of
\* them, each once, oldest first
IsRecentSlice(t, c) ==
    LET rows == { m \in messages : m.conversation_id = c }
        taken == { t[i] : i \in 1..Len(t) }
    IN /\ Len(t) = Min(Cardinality(rows), TranscriptCap)
       /\ taken \subseteq rows
       /\ Cardinality(taken) = Len(t)
       /\ \A i, j \in 1..Len(t) : i < j => t[i].timestamp <= t[j].timestamp
       /\ \A m \in rows \ taken : \A i \in 1..Len(t) : m.timestamp <= t[i].timestamp

\* a run past FETCH_TRANSCRIPT works on the most recent rows of the durable
\* transcript, whatever the user's window holds
C28_State ==
    \A p \in Procs :
        (Stage(pc[p]) \notin {"NONE", "FETCH_TRANSCRIPT"}) =>
            /\ loc[p].transcript # <<>>
            /\ IsRecentSlice(loc[p].transcript, loc[p].conversation_id)

\* no step of a run changes a window, its expiry or the record of appends
C28_Step == \A p \in Procs : IsRunStep(p) => UNCHANGED wmVars

\* C28: consolidation reads the durable transcript, not the working memory:
\* past FETCH_TRANSCRIPT the run holds the at most 20 most recent messages
\* of the conversation in timestamp order, whether the user's window is
\* stored, absent or expired, and no step of the run changes a window.
C28_TranscriptNotWindow == []C28_State /\ [][C28_Step]_vars

\* a run on a conversation longer than the cap has stored its facts from
\* the 20 most recent messages while the user's window had expired
C28_Witness ==
    \E p \in Procs :
        /\ pc[p] = "pl_episode"
        /\ loc[p].stats.facts > 0
        /\ Len(loc[p].transcript) = TranscriptCap
        /\ \E m \in messages :
              /\ m.conversation_id = loc[p].conversation_id
              /\ m.timestamp < loc[p].transcript[1].timestamp
        /\ cache[StmKey(loc[p].user_id[1])] # None
        /\ RedisGet(StmKey(loc[p].user_id[1])) = None

\* The committed rows a point stands for: same id, same user
RowsBehind(q, rows) ==
    { m \in rows : Str(m.id) = q.id /\ Str(m.user_id) = q.payload.user_id }

\* every point written by this step stands for a row committed before the
\* step; a store whose commit fails ends at once and writes no point
C29_Step ==
    /\ \A q \in points' \ points : RowsBehind(q, memories) # {}
    /\ (budget'.store # budget.store /\ memories' = memories) =>
          /\ UNCHANGED points
          /\ \A p \in Procs : pc'[p] = "idle"

\* C29: vector points follow rows: each point of the episodic collection
\* has the id and the user of exactly one committed row, the row was
\* committed before the point was written, and a store whose relational
\* commit failed writes no point.
C29_PointsFollowRows ==
    /\ [](\A q \in points : Cardinality(RowsBehind(q, memories)) = 1)
    /\ [][C29_Step]_vars

\* two stores are over: one wrote its point after its row, one failed to
\* commit and left neither row nor point
C29_Witness ==
    /\ budget.store = 0
    /\ \A p \in Procs : pc[p] = "idle"
    /\ \E p \in Procs : ret[p].op = "create_episodic_memory" /\ ret[p].status = "raised"
    /\ \E q \in points, m \in memories : /\ m.id = nextId - 1
                                           /\ RowsBehind(q, memories) = {m}
    /\ Cardinality(points) = Cardinality(memories)

\* The run of p ends in this step, failed, after PERSIST_FACTS has begun
RunFailsLate(p) ==
    /\ Stage(pc[p]) \in {"PERSIST_FACTS", "PERSIST_EPISODE"}
    /\ pc'[p] = "idle"
    /\ ret'[p].status # "success"

\* The key of the j-th candidate fact of a run
CandidateKey(l, j) ==
    FactKey(l.user_id[1], CandidateFactCreate(l.data[1].facts[j])[1])

RowsOfConversation(c) == { m \in messages : m.conversation_id = c }

\* a run past FETCH_TRANSCRIPT is on a conversation there is, with messages
C31_State ==
    \A p \in Procs :
        Stage(pc[p]) \notin {"NONE", "FETCH_TRANSCRIPT"} =>
            /\ \E c \in convs : c.id = loc[p].conversation_id
            /\ RowsOfConversation(loc[p].conversation_id) # {}

\* a fetch that reaches the store ends the run at once for a conversation
\* that is missing (error) or empty (skipped), before any model call and
\* with the tables and the index as they were
C31_Step ==
    \A p \in Procs :
        (pc[p] = "pl_fetch" /\ pc'[p] # "pl_fetch") =>
            LET c == loc[p].conversation_id
                missing == \A v \in convs : v.id # c
                empty == ~missing /\ RowsOfConversation(c) = {}
            IN /\ (missing \/ empty) => pc'[p] = "idle"
               /\ (pc'[p] = "idle" /\ ret'[p].status # "raised") =>
                     /\ missing \/ empty
                     /\ missing => ret'[p].status = "error"
                     /\ empty => ret'[p].status = "skipped"
                     /\ ret'[p].answer = None /\ ret'[p].data = None
                     /\ ret'[p].stats = [facts |-> 0, memories |-> 0]
               /\ UNCHANGED <<facts, memories, points>>

\* C31: a run on a conversation id that resolves to nothing returns status
\* error, a run on a conversation without messages returns status skipped;
\* neither calls the language model nor writes a fact, a memory or a point.
C31_EarlyExitsWriteNothing == []C31_State /\ [][C31_Step]_vars

\* after a run that stored facts, one run has ended on a missing
\* conversation or on an empty one, and the tables are as that run found them
C31_Witness ==
    /\ Len(runs) = 2
    /\ \A p \in Procs : pc[p] = "idle"
    /\ runs[1].status = "success" /\ runs[1].stats.facts > 0
    /\ runs[2].status \in {"skipped", "error"} /\ runs[2].stage = "FETCH_TRANSCRIPT"
    /\ runs[2].answer = None
    /\ facts = runs[2].before.facts /\ facts # {}
    /\ memories = runs[2].before.memories /\ points = runs[2].before.points

\* The steps of a turn up to the call of llm.generate, by the await the
\* caller is suspended at, and the failures that end a turn in them
EarlyTurnSteps ==
    {"idle", "gr_conv", "gr_stm", "gr_facts", "gr_search", "gr_hydrate", "gr_entities",
     "gr_generate"}
EarlyFailures == {"user", "conversation", "facts", "hydrate", "entities", "generate"}

\* a turn that is over has returned the reply or the apology; the apology
\* for a failure up to the generation comes with no append done
C32_State ==
    \A p \in Procs :
        ret[p].op = "generate_response" =>
            /\ ret[p].status = "ok"
            /\ ret[p].value \in {Apology} \cup { Strip(r) : r \in Replies }
            /\ ret[p].value = Apology <=> ret[p].failedAt # "none"
            /\ ret[p].failedAt # "none" => ret[p].failedAt \in EarlyFailures \cup {"persist"}
            /\ ret[p].failedAt \in EarlyFailures => ret[p].appends = 0

\* no step of a turn up to the generation writes a window or a message
C32_Step ==
    \A p \in Procs :
        (pc[p] \in EarlyTurnSteps /\ (pc'[p] # pc[p] \/ ret'[p] # ret[p])) =>
            /\ UNCHANGED <<cache, appended, messages>>
            /\ pc'[p] = "idle" =>
                  /\ ret'[p].op = "generate_response"
                  /\ ret'[p].failedAt \in EarlyFailures \cup {"none"}

\* C32: a turn request always returns to its caller, with the generated
\* reply or with the fixed apology, whichever of its steps fails; a turn
\* that returns the apology for a failure at or before the generation has
\* written nothing to the window and no message to the transcript.
C32_TurnNeverRaises == []C32_State /\ [][C32_Step]_vars

\* a turn on a stored window has returned the apology because the model
\* failed, and window and transcript are what they were
C32_Witness ==
    \E p \in Procs :
        /\ pc[p] = "idle" /\ ret[p].op = "generate_response"
        /\ ret[p].value = Apology /\ ret[p].failedAt = "generate"
        /\ ret[p].message # START_SESSION
        /\ appended[ret[p].user_id] = EarlierTurn
        /\ GetStmContext(ret[p].user_id, TRUE) = EarlierTurn
        /\ messages = {}

\* A turn of a window that a turn request wrote
WrittenByTurn(t) == t.content \in Messages \cup Replies

\* In window w every turn written by a turn request stands in a pair: a
\* user turn is followed by an assistant turn, an assistant turn follows a
\* user turn or is the head of a window the cap has cut
IsPaired(w) ==
    \A i \in 1..Len(w) :
        WrittenByTurn(w[i]) =>
            /\ w[i].role = "user" =>
                  /\ i < Len(w)
                  /\ w[i + 1].role = "assistant" /\ WrittenByTurn(w[i + 1])
            /\ w[i].role = "assistant" =>
                  IF i = 1 THEN Len(w) = StmCap
                  ELSE w[i - 1].role = "user" /\ WrittenByTurn(w[i - 1])

\* C33: whenever no turn request is under way, every stored window holds
\* the turns written by turn requests as adjacent pairs of a user turn and
\* the assistant turn after it, also when the cache failed between the two
\* appends of an exchange.
C33_ExchangePairing ==
    (\A p \in Procs : pc[p] = "idle") =>
        \A u \in Users :
            cache[StmKey(u)] # None => IsPaired(StoredWindow(u))

\* The rows of the user's conversations that record turn t
TranscriptRowsOf(u, t) ==
    { m \in messages : /\ \E c \in convs : c.user_id = u /\ c.id = m.conversation_id
                       /\ m.role = t.role
                       /\ m.content = Strip(t.content) }

\* C34: whenever no turn request is under way, every turn that a turn
\* request wrote to a user's stored window is also a row of that user's
\* durable transcript, also when the commit of the transcript failed after
\* the appends to the window.
C34_WindowWithinTranscript ==
    (\A p \in Procs : pc[p] = "idle") =>
        \A u \in Users :
            cache[StmKey(u)] # None =>
                \A i \in 1..Len(StoredWindow(u)) :
                    WrittenByTurn(StoredWindow(u)[i]) =>
                        TranscriptRowsOf(u, StoredWindow(u)[i]) # {}

\* C35: an upsert that has ended with the relational store reachable has
\* returned a fact row of its key; it has raised only for an error of the
\* store, also when an earlier race left two rows for the key.
C35_UpsertTotal ==
    \A p \in Procs :
        ret[p].op = "add_fact" =>
            \/ /\ ret[p].status = "ok"
               /\ \E k \in FactKeys :
                     k = <<ret[p].value.user_id, ret[p].value.category, ret[p].value.value>>
            \/ /\ ret[p].status = "raised"
               /\ ret[p].error = "db"

\* The rows of a key and the number of upserts of the key that returned
RowsWithKey(k) == { r \in facts : <<r.user_id, r.category, r.value>> = k }

\* C36: when no upsert is under way, a key with one row has that row's
\* reinforcement_count at the number of upserts of the key that returned
\* after the one that created the row, also when upserts of the key ran
\* concurrently.
C36_NoLostReinforcement ==
    (\A p \in Procs : pc[p] = "idle") =>
        \A k \in FactKeys :
            \A r \in RowsWithKey(k) :
                Cardinality(RowsWithKey(k)) = 1 => r.reinforcement_count = calls[k] - 1

====
